---- MODULE Spec2Model ----
(***************************************************************************)
(* Model of the task scheduler of the video processor                      *)
(* (app/core/task_manager.py, class TaskManager) as driven by the          *)
(* websocket front end (app/services/websocket_server.py).                 *)
(*                                                                         *)
(* The scheduler runs on one asyncio event loop: code between two awaits   *)
(* that really suspend runs atomically.  Every action below is the code    *)
(* one coroutine executes from one suspension point to the next.           *)
(* Suspension points are: persistence.save_task (the global TaskManager is *)
(* built with the persistence object), websocket.send, asyncio.to_thread,  *)
(* and entering asyncio.wait_for.  Queue.put on the unbounded queue and    *)
(* Queue.get on a non-empty queue do not suspend.                          *)
(*                                                                         *)
(* A job record is the Python dict stored in self.tasks[task_id].  An      *)
(* executor keeps a reference to the dict it fetched when it started, so   *)
(* the dicts live in a heap (recs) and self.tasks maps an id to the index  *)
(* of its current dict.                                                    *)
(***************************************************************************)
EXTENDS Integers, Sequences, FiniteSets, TLC

\* ---------------------------------------------------------------- bounds
NumIds == 2          \* distinct task ids a client may send
MaxAdds == 2         \* add_task calls in one run
MaxK == 2            \* largest max_concurrent_tasks explored
NumVideos == 1       \* videos in a job's payload
MaxCalls == 2        \* redundant process_next_task calls counted per case
MaxBurst == 3        \* add_task calls in one run with a single slot

Ids == 1 .. NumIds

Terminal == {"completed", "error", "timeout", "cancelled"}
Statuses == {"pending", "processing"} \cup Terminal

\* Exceptions a finalization stage can raise to process_task, by the except
\* clause of process_task that matches them.  "TimeoutError" is an exception
\* that `except asyncio.TimeoutError` matches although no deadline expired:
\* the builtin TimeoutError (the same class as asyncio.TimeoutError from
\* Python 3.11 on) raised by a collaborator.  "Exception" is any other
\* exception, such as the ValueError that _run raises itself.  An exception
\* escaping an earlier stage (a failing websocket.send) reaches the same two
\* except clauses; the model raises at the finalization stage only.
ExcKinds == {"Exception", "TimeoutError"}

VARIABLES
    persistence,           \* TaskManager.persistence: "absent" (None), or how the store behaves
    max_concurrent_tasks,  \* TaskManager.max_concurrent_tasks (fixed per run)
    recs,                  \* heap of job dicts, in creation order
    tasks,                 \* TaskManager.tasks: id -> index into recs, 0 = no entry
    task_queue,            \* TaskManager.task_queue (ids, FIFO)
    processing_tasks,      \* TaskManager.processing_tasks
    cancelled_tasks,       \* TaskManager._cancelled_tasks
    video_processors,      \* keys of TaskManager.video_processors
    add_waiting,           \* add_task calls suspended in save_task, FIFO (ids)
    procs,                 \* process_task coroutines created by create_task, in launch order
    threads,               \* executors whose to_thread worker is still running after being abandoned
    cancel_result,         \* return value of the last cancel_task call ("none" before the first)
    cancel_accepted,       \* <<record, status>>: cancel_task returned True for the record in that status
    admission_case,        \* bookkeeping of process_next_task calls on "one queued job, one free slot"
    ledger,                \* the status column of the tasks table and the save_task calls waiting for its lock
    job,                   \* the data of one job on its way through the stages of process_task
    reel,                  \* one analysis result on its way to the merged video
    store,                 \* the tasks table of TaskPersistence and the saves committed to it
    sweeper,               \* the cleanup loop of TaskManager and main() around it
    asr                    \* one get_result call of ASRClient

\* The scheduler's variables, and the variables of the data-flow models
\* (the scheduler steps above the data: its actions leave data_vars alone).
sched_vars == <<persistence, max_concurrent_tasks, recs, tasks, task_queue,
                processing_tasks, cancelled_tasks, video_processors, add_waiting,
                procs, threads, cancel_result, cancel_accepted, admission_case, ledger>>

data_vars == <<job, reel, store, sweeper, asr>>

vars == <<sched_vars, data_vars>>

\* ---------------------------------------------------------------- helpers
\* started_at / completed_at: whether the dict has the key (lines 81 and 98).
NewRec(id) ==
    [task_id |-> id, status |-> "pending", error |-> "none",
     started_at |-> FALSE, completed_at |-> FALSE]

NewProc(id) ==
    [task_id |-> id, task |-> 0, pc |-> "start", i |-> 0, outcome |-> "none",
     exc |-> "none", sent |-> <<>>, expired |-> FALSE]

NoCase == [active |-> FALSE, calls |-> 0, base_pt |-> 0, base_procs |-> 0, by |-> "none"]

\* get_task_status(id)['status'], "absent" when get_task_status returns None
StatusOf(id) == IF tasks[id] = 0 THEN "absent" ELSE recs[tasks[id]].status

Live(e) == procs[e].pc # "done"

LiveProcs == {e \in 1 .. Len(procs) : Live(e)}

\* Messages that the log of an executor keeps: the ones that end a job's
\* stream or report the failure of the finalization; progress traffic
\* (start, per-video progress and per-video errors) is sent but not recorded.
Logged == {"complete", "error_finalize", "error_timeout", "cancelled", "error_task"}

\* send_websocket_message on the executor's websocket
Send(p, kind) == IF kind \in Logged THEN [p EXCEPT !.sent = Append(@, kind)] ELSE p

\* A faulty process_next_task that takes the id queued last.
process_next_task_lifo(pt, q, ps) ==
    IF pt >= max_concurrent_tasks THEN [pt |-> pt, q |-> q, ps |-> ps]
    ELSE IF q # <<>>
         THEN [pt |-> pt + 1, q |-> SubSeq(q, 1, Len(q) - 1),
               ps |-> Append(ps, NewProc(q[Len(q)]))]
         ELSE [pt |-> pt, q |-> q, ps |-> ps]

\* A faulty process_next_task that keeps the last slot free.
process_next_task_sparing(pt, q, ps) ==
    IF pt + 1 >= max_concurrent_tasks THEN [pt |-> pt, q |-> q, ps |-> ps]
    ELSE IF q # <<>>
         THEN [pt |-> pt + 1, q |-> Tail(q), ps |-> Append(ps, NewProc(Head(q)))]
         ELSE [pt |-> pt, q |-> q, ps |-> ps]

\* A faulty process_next_task that launches an executor without counting it.
process_next_task_no_increment(pt, q, ps) ==
    IF pt >= max_concurrent_tasks THEN [pt |-> pt, q |-> q, ps |-> ps]
    ELSE IF q # <<>>
         THEN [pt |-> pt, q |-> Tail(q), ps |-> Append(ps, NewProc(Head(q)))]
         ELSE [pt |-> pt, q |-> q, ps |-> ps]

\* process_next_task, as a function of the scheduler state it reads and writes
process_next_task(pt, q, ps) ==
    IF pt >= max_concurrent_tasks THEN [pt |-> pt, q |-> q, ps |-> ps]
    ELSE IF q # <<>>
         THEN [pt |-> pt + 1, q |-> Tail(q), ps |-> Append(ps, NewProc(Head(q)))]
         ELSE [pt |-> pt, q |-> q, ps |-> ps]

\* Bookkeeping for one call of process_next_task made by `by` and entered
\* with counter pt, queue q and Len(ps) executors: a call that finds exactly
\* one queued id and exactly one free slot opens a case; later calls in the
\* same case are counted.
CaseOnCall(ac, pt, q, ps, by) ==
    IF Len(q) = 1 /\ max_concurrent_tasks - pt = 1
    THEN [active |-> TRUE, calls |-> 1, base_pt |-> pt, base_procs |-> Len(ps), by |-> by]
    ELSE IF ac.active
         THEN [ac EXCEPT !.calls = IF @ < MaxCalls THEN @ + 1 ELSE @]
         ELSE ac

\* ---------------------------------------------------------------- initial state
SchedulerStart ==
    /\ max_concurrent_tasks \in 1 .. MaxK
    /\ recs = <<>>
    /\ tasks = [id \in Ids |-> 0]
    /\ task_queue = <<>>
    /\ processing_tasks = 0
    /\ cancelled_tasks = {}
    /\ video_processors = {}
    /\ add_waiting = <<>>
    /\ procs = <<>>
    /\ threads = {}
    /\ cancel_result = "none"
    /\ cancel_accepted = {}
    /\ admission_case = NoCase

\* The status column of the tasks table is not followed.
NoLedger == [on |-> FALSE, rows |-> [id \in Ids |-> "absent"], pending |-> <<>>]

\* The scheduler with a store that is enabled; single writes may fail.
SchedulerInit == SchedulerStart /\ persistence = "enabled" /\ ledger = NoLedger

\* No job data is followed while the scheduler is explored.
NoJob == [stage |-> "none"]

NoReel == [stage |-> "none"]

NoStore == [enabled |-> FALSE]
NoAsr == [pc |-> "none"]

NoSweeper == [main |-> "none"]

Init ==
    /\ SchedulerInit
    /\ job = NoJob /\ reel = NoReel /\ store = NoStore /\ sweeper = NoSweeper /\ asr = NoAsr

\* ---------------------------------------------------------------- add_task
\* save_task suspends the caller only when it reaches the lock and the
\* database: with no store or a disabled one the caller runs on unsuspended.
SaveSuspends == persistence \in {"enabled", "failing"}

\* A coroutine is at one of the scheduler's save_task calls.
SavePending ==
    \/ add_waiting # <<>>
    \/ \E e \in 1 .. Len(procs) :
          procs[e].pc \in {"timeout_saved", "cancelled_saved", "error_saved",
                           "completed_saved"}

\* The event loop can run another coroutine or callback: none is running,
\* i.e. none is inside a save_task that does not suspend.
Runnable == SaveSuspends \/ ~SavePending

\* A save_task that lets the exception of a failed write through.
save_task_outcome_raising(mode, ok) ==
    LET called == mode # "absent"
        writes == called /\ mode # "disabled"
        fails == writes /\ (mode = "failing" \/ ~ok)
    IN IF fails THEN "raised" ELSE IF called THEN "returned" ELSE "skipped"

\* How `if self.persistence: await self.persistence.save_task(...)` ends for
\* the scheduler: not called without a store, returned at once by a disabled
\* store, returned after the write, or returned after the exception of a
\* failed write was logged (ok = FALSE, and every write of a failing store).
save_task_outcome(mode, ok) ==
    LET called == mode # "absent"
        writes == called /\ mode # "disabled"
        fails == writes /\ (mode = "failing" \/ ~ok)
    IN IF fails THEN "logged" ELSE IF called THEN "returned" ELSE "skipped"

\* add_task up to its await of persistence.save_task: the id's entry in
\* self.tasks is replaced by a fresh pending dict.  Ids are opaque strings;
\* an id not seen before is named by the smallest unused number.
add_task_upto(id, n) ==
    /\ Runnable
    /\ Len(recs) < n
    /\ \A j \in Ids : j < id => tasks[j] # 0
    /\ recs' = Append(recs, NewRec(id))
    /\ tasks' = [tasks EXCEPT ![id] = Len(recs) + 1]
    /\ add_waiting' = Append(add_waiting, id)
    /\ UNCHANGED <<data_vars, persistence, max_concurrent_tasks, task_queue, processing_tasks,
                   cancelled_tasks, video_processors, procs, threads,
                   cancel_result, cancel_accepted, admission_case>>

add_task(id) == add_task_upto(id, MaxAdds)

\* add_task after save_task returned: task_queue.put, then process_next_task.
\* An exception of save_task would end add_task there.
add_task_enqueue ==
    /\ add_waiting # <<>>
    /\ \E ok \in BOOLEAN :
         IF save_task_outcome(persistence, ok) = "raised"
         THEN UNCHANGED <<task_queue, processing_tasks, procs, admission_case>>
         ELSE LET q1 == Append(task_queue, Head(add_waiting))
                  r == process_next_task(processing_tasks, q1, procs)
              IN /\ task_queue' = r.q
                 /\ processing_tasks' = r.pt
                 /\ procs' = r.ps
                 /\ admission_case' = CaseOnCall(NoCase, processing_tasks, q1, procs, "add_task")
    /\ add_waiting' = Tail(add_waiting)
    /\ UNCHANGED <<data_vars, persistence, max_concurrent_tasks, recs, tasks, cancelled_tasks,
                   video_processors, threads, cancel_result, cancel_accepted>>

\* A redundant call of process_next_task from outside add_task / process_task.
process_next_task_call ==
    /\ Runnable
    /\ admission_case.active => admission_case.calls < MaxCalls
    /\ LET r == process_next_task(processing_tasks, task_queue, procs)
       IN /\ task_queue' = r.q
          /\ processing_tasks' = r.pt
          /\ procs' = r.ps
          /\ admission_case' = CaseOnCall(admission_case, processing_tasks, task_queue, procs, "caller")
    /\ UNCHANGED <<data_vars, persistence, max_concurrent_tasks, recs, tasks, cancelled_tasks,
                   video_processors, add_waiting, threads, cancel_result, cancel_accepted>>

\* A faulty cancel_task without the status guard of lines 290-292: a job in a
\* terminal status is accepted like a processing one.
cancel_task_any_status(id) ==
    LET was == StatusOf(id) IN
    /\ cancel_result' = IF was # "absent" THEN "True" ELSE "False"
    /\ IF was = "absent"
       THEN UNCHANGED <<recs, cancelled_tasks, cancel_accepted>>
       ELSE /\ cancelled_tasks' = cancelled_tasks \cup {id}
            /\ IF was = "pending"
               THEN /\ recs' = [recs EXCEPT ![tasks[id]].status = "cancelled"]
                    /\ cancel_accepted' = cancel_accepted \cup {<<tasks[id], "pending">>}
               ELSE /\ cancel_accepted' = cancel_accepted \cup {<<tasks[id], was>>}
                    /\ UNCHANGED recs
    /\ UNCHANGED <<data_vars, persistence, max_concurrent_tasks, tasks, task_queue, processing_tasks,
                   video_processors, add_waiting, procs, threads, admission_case>>

\* ---------------------------------------------------------------- cancel_task
cancel_task(id) ==
    LET was == StatusOf(id) IN
    /\ Runnable
    /\ cancel_result' = IF was \in {"pending", "processing"} THEN "True" ELSE "False"
    /\ IF was \notin {"pending", "processing"}
       THEN UNCHANGED <<recs, cancelled_tasks, cancel_accepted>>
       ELSE /\ cancelled_tasks' = cancelled_tasks \cup {id}
            /\ IF was = "pending"
               THEN /\ recs' = [recs EXCEPT ![tasks[id]].status = "cancelled"]
                    /\ cancel_accepted' = cancel_accepted \cup {<<tasks[id], "pending">>}
               ELSE /\ cancel_accepted' = cancel_accepted \cup {<<tasks[id], "processing">>}
                    /\ UNCHANGED recs
    /\ UNCHANGED <<data_vars, persistence, max_concurrent_tasks, tasks, task_queue, processing_tasks,
                   video_processors, add_waiting, procs, threads, admission_case>>

\* ---------------------------------------------------------------- process_task
\* Result of a piece of executor code: new heap, new cancellation set, new
\* coroutine state.
Continue(p) == [r |-> recs, c |-> cancelled_tasks, p |-> p]

\* except asyncio.CancelledError, up to its await of save_task
OnCancelled(p) ==
    [r |-> [recs EXCEPT ![p.task].status = "cancelled"],
     c |-> cancelled_tasks \ {p.task_id},
     p |-> [p EXCEPT !.pc = "cancelled_saved", !.outcome = "cancelled"]]

\* A faulty timeout branch that files the expiry under 'error'.
OnTimeout_as_error(p) ==
    [r |-> [recs EXCEPT ![p.task].status = "error", ![p.task].error = "timeout"],
     c |-> cancelled_tasks,
     p |-> [p EXCEPT !.pc = "timeout_saved", !.outcome = "timeout"]]

\* except asyncio.TimeoutError, up to its await of save_task
OnTimeout(p) ==
    [r |-> [recs EXCEPT ![p.task].status = "timeout", ![p.task].error = "timeout"],
     c |-> cancelled_tasks,
     p |-> [p EXCEPT !.pc = "timeout_saved", !.outcome = "timeout"]]

\* except Exception, up to its await of save_task
OnError(p) ==
    [r |-> [recs EXCEPT ![p.task].status = "error", ![p.task].error = "exception"],
     c |-> cancelled_tasks,
     p |-> [p EXCEPT !.pc = "error_saved", !.outcome = "error"]]

\* Which except clause of process_task catches an exception of the core.
OnException(p, kind) ==
    IF kind = "TimeoutError" THEN OnTimeout(p) ELSE OnError(p)

Step(e, res) ==
    /\ recs' = res.r
    /\ cancelled_tasks' = res.c
    /\ procs' = [procs EXCEPT ![e] = res.p]

\* One iteration of the loop of _add_videos_to_processor, up to its send.
MapSend(p, i, exists) ==
    IF exists
    THEN [Send(p, "progress_add") EXCEPT !.pc = "map_sent", !.i = i]
    ELSE [Send(p, "error_missing") EXCEPT !.pc = "map_missing_sent", !.i = i]

\* One iteration of the loop of _clip_videos, up to asyncio.to_thread.
ClipIter(p, i) ==
    IF p.task_id \in cancelled_tasks
    THEN OnCancelled(p)
    ELSE Continue([p EXCEPT !.pc = "transcribing", !.i = i])

\* A finished process_task coroutine: its locals are gone; what it sent and
\* which branch it ended in stay on record.
Done(p) == [p EXCEPT !.pc = "done", !.i = 0, !.exc = "none"]

\* A faulty finally block that looks at the queue but does not release its slot.
Finally_keeping_slot(e) ==
    LET ps1 == [procs EXCEPT ![e] = Done(@)]
        r == process_next_task(processing_tasks, task_queue, ps1)
    IN /\ video_processors' = video_processors \ {procs[e].task_id}
       /\ task_queue' = r.q
       /\ processing_tasks' = r.pt
       /\ procs' = r.ps
       /\ admission_case' = CaseOnCall(NoCase, processing_tasks, task_queue, ps1, "process_task")

\* A faulty finally block that releases the slot but does not look at the queue.
Finally_without_drain(e) ==
    /\ video_processors' = video_processors \ {procs[e].task_id}
    /\ processing_tasks' = processing_tasks - 1
    /\ procs' = [procs EXCEPT ![e] = Done(@)]
    /\ admission_case' = NoCase
    /\ UNCHANGED task_queue

\* The finally block of process_task (also the tail of the unknown-id path):
\* release the slot and call process_next_task.
Finally(e) ==
    LET ps1 == [procs EXCEPT ![e] = Done(@)]
        r == process_next_task(processing_tasks - 1, task_queue, ps1)
    IN /\ video_processors' = video_processors \ {procs[e].task_id}
       /\ task_queue' = r.q
       /\ processing_tasks' = r.pt
       /\ procs' = r.ps
       /\ admission_case' = CaseOnCall(NoCase, processing_tasks - 1, task_queue, ps1, "process_task")

\* process_task from its start to the await of save_task(task_id, 'processing')
process_task_begin(e) ==
    /\ Runnable
    /\ procs[e].pc = "start"
    /\ LET id == procs[e].task_id IN
       IF tasks[id] = 0
       THEN /\ Finally(e)
            /\ UNCHANGED <<recs, cancelled_tasks>>
       ELSE /\ recs' = [recs EXCEPT ![tasks[id]].status = "processing",
                                    ![tasks[id]].started_at = TRUE]
            /\ procs' = [procs EXCEPT ![e].task = tasks[id], ![e].pc = "core"]
            /\ UNCHANGED <<cancelled_tasks, video_processors, task_queue,
                           processing_tasks, admission_case>>
    /\ UNCHANGED <<data_vars, persistence, max_concurrent_tasks, tasks, add_waiting, threads,
                   cancel_result, cancel_accepted>>

\* _process_task_core from its start to the first send of _add_videos_to_processor
core_begin(e) ==
    /\ Runnable
    /\ procs[e].pc = "core"
    /\ LET p == procs[e] IN
       IF p.task_id \in cancelled_tasks
       THEN Step(e, OnCancelled(p))
       ELSE \E exists \in BOOLEAN : Step(e, Continue(MapSend(p, 1, exists)))
    /\ UNCHANGED <<data_vars, persistence, max_concurrent_tasks, tasks, task_queue, processing_tasks,
                   video_processors, add_waiting, threads, cancel_result,
                   cancel_accepted, admission_case>>

\* After a send of _add_videos_to_processor: next video, or (after the last
\* video, or after a missing file made the function return) the cancellation
\* check, the registration of the processor and the start message.
map_resume(e) ==
    /\ Runnable
    /\ procs[e].pc \in {"map_sent", "map_missing_sent"}
    /\ LET p == procs[e] IN
       IF p.pc = "map_sent" /\ p.i < NumVideos
       THEN /\ \E exists \in BOOLEAN : Step(e, Continue(MapSend(p, p.i + 1, exists)))
            /\ UNCHANGED video_processors
       ELSE IF p.task_id \in cancelled_tasks
            THEN /\ Step(e, OnCancelled(p))
                 /\ UNCHANGED video_processors
            ELSE /\ Step(e, Continue([Send(p, "start") EXCEPT !.pc = "start_sent"]))
                 /\ video_processors' = video_processors \cup {p.task_id}
    /\ UNCHANGED <<data_vars, persistence, max_concurrent_tasks, tasks, task_queue, processing_tasks,
                   add_waiting, threads, cancel_result, cancel_accepted, admission_case>>

\* After the start message: first iteration of _clip_videos.
start_resume(e) ==
    /\ Runnable
    /\ procs[e].pc = "start_sent"
    /\ Step(e, ClipIter(procs[e], 1))
    /\ UNCHANGED <<data_vars, persistence, max_concurrent_tasks, tasks, task_queue, processing_tasks,
                   video_processors, add_waiting, threads, cancel_result,
                   cancel_accepted, admission_case>>

\* process_single_video returned or raised in its thread: progress or error message.
transcribe_resume(e) ==
    /\ Runnable
    /\ procs[e].pc = "transcribing"
    /\ \E ok \in BOOLEAN :
         Step(e, Continue([Send(procs[e], IF ok THEN "progress_clip" ELSE "error_clip")
                             EXCEPT !.pc = "clip_sent"]))
    /\ UNCHANGED <<data_vars, persistence, max_concurrent_tasks, tasks, task_queue, processing_tasks,
                   video_processors, add_waiting, threads, cancel_result,
                   cancel_accepted, admission_case>>

\* After the per-video message: next video, or the cancellation check before
\* _finalize_processing and the start of its thread.
clip_resume(e) ==
    /\ Runnable
    /\ procs[e].pc = "clip_sent"
    /\ LET p == procs[e] IN
       IF p.i < NumVideos
       THEN Step(e, ClipIter(p, p.i + 1))
       ELSE IF p.task_id \in cancelled_tasks
            THEN Step(e, OnCancelled(p))
            ELSE Step(e, Continue([p EXCEPT !.pc = "finalizing"]))
    /\ UNCHANGED <<data_vars, persistence, max_concurrent_tasks, tasks, task_queue, processing_tasks,
                   video_processors, add_waiting, threads, cancel_result,
                   cancel_accepted, admission_case>>

\* _run returned or raised in its thread: complete message, or error message.
finalize_resume(e) ==
    /\ Runnable
    /\ procs[e].pc = "finalizing"
    /\ \E out \in {"ok"} \cup ExcKinds :
         Step(e, Continue(IF out = "ok"
                          THEN [Send(procs[e], "complete") EXCEPT !.pc = "complete_sent"]
                          ELSE [Send(procs[e], "error_finalize")
                                  EXCEPT !.pc = "final_error_sent", !.exc = out]))
    /\ UNCHANGED <<data_vars, persistence, max_concurrent_tasks, tasks, task_queue, processing_tasks,
                   video_processors, add_waiting, threads, cancel_result,
                   cancel_accepted, admission_case>>

\* The core returned normally: mark completed unless the id is in the
\* cancellation set; in that case control falls straight into the finally block.
complete_resume(e) ==
    /\ Runnable
    /\ procs[e].pc = "complete_sent"
    /\ LET p == procs[e] IN
       IF p.task_id \notin cancelled_tasks
       THEN /\ recs' = [recs EXCEPT ![p.task].status = "completed",
                                    ![p.task].completed_at = TRUE]
            /\ procs' = [procs EXCEPT ![e].pc = "completed_saved", ![e].outcome = "completed"]
            /\ UNCHANGED <<video_processors, task_queue, processing_tasks, admission_case>>
       ELSE /\ Finally(e)
            /\ UNCHANGED recs
    /\ UNCHANGED <<data_vars, persistence, max_concurrent_tasks, tasks, cancelled_tasks, add_waiting,
                   threads, cancel_result, cancel_accepted>>

\* _finalize_processing re-raises the exception of _run after its error message.
final_error_resume(e) ==
    /\ Runnable
    /\ procs[e].pc = "final_error_sent"
    /\ Step(e, OnException(procs[e], procs[e].exc))
    /\ UNCHANGED <<data_vars, persistence, max_concurrent_tasks, tasks, task_queue, processing_tasks,
                   video_processors, add_waiting, threads, cancel_result,
                   cancel_accepted, admission_case>>

\* Suspension points inside asyncio.wait_for
CoreSuspended ==
    {"map_sent", "map_missing_sent", "start_sent", "transcribing", "clip_sent",
     "finalizing", "complete_sent", "final_error_sent"}

\* The deadline of wait_for expires while the core is suspended: the core is
\* cancelled at its await, a worker thread in flight keeps running detached.
deadline_expires(e) ==
    /\ Runnable
    /\ procs[e].pc \in CoreSuspended
    /\ Step(e, OnTimeout([procs[e] EXCEPT !.expired = TRUE]))
    /\ threads' = IF procs[e].pc \in {"transcribing", "finalizing"}
                  THEN threads \cup {e} ELSE threads
    /\ UNCHANGED <<data_vars, persistence, max_concurrent_tasks, tasks, task_queue, processing_tasks,
                   video_processors, add_waiting, cancel_result, cancel_accepted,
                   admission_case>>

\* An abandoned worker thread returns; nobody awaits its result.
thread_exit(e) ==
    /\ e \in threads
    /\ threads' = threads \ {e}
    /\ UNCHANGED <<data_vars, persistence, max_concurrent_tasks, recs, tasks, task_queue,
                   processing_tasks, cancelled_tasks, video_processors, add_waiting,
                   procs, cancel_result, cancel_accepted, admission_case>>

\* The notification of an except clause, after its save_task returned.  An
\* exception of save_task would leave the clause before the notification.
handler_notify(e) ==
    /\ procs[e].pc \in {"timeout_saved", "cancelled_saved", "error_saved"}
    /\ LET kind == CASE procs[e].pc = "timeout_saved" -> "error_timeout"
                     [] procs[e].pc = "cancelled_saved" -> "cancelled"
                     [] OTHER -> "error_task"
       IN \E ok \in BOOLEAN :
            procs' = [procs EXCEPT ![e] =
                        IF save_task_outcome(persistence, ok) = "raised"
                        THEN [@ EXCEPT !.pc = "notify_sent"]
                        ELSE [Send(@, kind) EXCEPT !.pc = "notify_sent"]]
    /\ UNCHANGED <<data_vars, persistence, max_concurrent_tasks, recs, tasks, task_queue,
                   processing_tasks, cancelled_tasks, video_processors, add_waiting,
                   threads, cancel_result, cancel_accepted, admission_case>>

\* The finally block of process_task, after a notification or after
\* save_task(task_id, 'completed') returned.  An exception of that save_task
\* would be caught by except Exception.
process_task_finally(e) ==
    /\ procs[e].pc \in {"notify_sent", "completed_saved"}
    /\ procs[e].pc = "completed_saved" \/ Runnable
    /\ \E ok \in BOOLEAN :
         IF /\ procs[e].pc = "completed_saved"
            /\ save_task_outcome(persistence, ok) = "raised"
         THEN /\ Step(e, OnError(procs[e]))
              /\ UNCHANGED <<video_processors, task_queue, processing_tasks,
                             admission_case>>
         ELSE /\ Finally(e)
              /\ UNCHANGED <<recs, cancelled_tasks>>
    /\ UNCHANGED <<data_vars, persistence, max_concurrent_tasks, tasks,
                   add_waiting, threads, cancel_result, cancel_accepted>>

\* ---------------------------------------------------------------- save_task
\* The callers of save_task: add_task, cancel_task, and the e-th executor.
Adder == <<"add_task", 0>>

Canceller == <<"cancel_task", 0>>

Executor(e) == <<"process_task", e>>

\* The job dicts whose status a step of the scheduler assigns.  Every such
\* assignment (the new dict of add_task, lines 85, 97, 104, 118 and 132 of
\* process_task, line 298 of cancel_task) is followed, with nothing but a log
\* line or the error text between, by save_task(task_id, <that status>).
Assigned ==
    {k \in 1 .. Len(recs') : k > Len(recs) \/ recs'[k].status # recs[k].status}

\* save_task(task_id, status) called by `by`: the call waits its turn for
\* self._lock, an asyncio.Lock, which serves its waiters in arrival order.
save_task_call(led, by, task_id, status) ==
    [led EXCEPT !.pending = Append(@, [task_id |-> task_id, status |-> status, by |-> by])]

\* The save_task call that `by` awaits has returned: none of its calls is
\* waiting any more (add_task calls resume in the order they were made).
SaveReturned(by) ==
    LET mine == {i \in 1 .. Len(ledger.pending) : ledger.pending[i].by = by}
    IN IF by = Adder THEN Cardinality(mine) < Len(add_waiting) ELSE mine = {}

\* What a step of the scheduler made by `by` does to the store: a step that
\* resumes from `await save_task` waits for the call to return, and a step
\* that assigns a status calls save_task with it.
Ledger(by, resumes) ==
    /\ resumes => SaveReturned(by)
    /\ ledger' = IF ledger.on /\ Assigned # {}
                 THEN LET k == CHOOSE k \in Assigned : TRUE
                      IN save_task_call(ledger, by, recs'[k].task_id, recs'[k].status)
                 ELSE ledger

\* The save_task call at the head of the lock's queue runs: UPDATE of the
\* row of its task_id, or INSERT when there is none, and commit.
save_task_commits ==
    /\ ledger.pending # <<>>
    /\ LET w == Head(ledger.pending)
       IN ledger' = [ledger EXCEPT !.rows[w.task_id] = w.status, !.pending = Tail(@)]
    /\ UNCHANGED <<data_vars, persistence, max_concurrent_tasks, recs, tasks, task_queue,
                   processing_tasks, cancelled_tasks, video_processors, add_waiting,
                   procs, threads, cancel_result, cancel_accepted, admission_case>>

\* ---------------------------------------------------------------- specification
\* Every step but the submission of a job.
Steps ==
    \/ add_task_enqueue /\ Ledger(Adder, TRUE)
    \/ process_next_task_call /\ UNCHANGED ledger
    \/ \E id \in Ids : cancel_task(id) /\ Ledger(Canceller, FALSE)
    \/ \E e \in 1 .. Len(procs) : process_task_begin(e) /\ Ledger(Executor(e), FALSE)
    \/ \E e \in 1 .. Len(procs) : core_begin(e) /\ Ledger(Executor(e), TRUE)
    \/ \E e \in 1 .. Len(procs) : map_resume(e) /\ Ledger(Executor(e), FALSE)
    \/ \E e \in 1 .. Len(procs) : start_resume(e) /\ Ledger(Executor(e), FALSE)
    \/ \E e \in 1 .. Len(procs) : transcribe_resume(e) /\ Ledger(Executor(e), FALSE)
    \/ \E e \in 1 .. Len(procs) : clip_resume(e) /\ Ledger(Executor(e), FALSE)
    \/ \E e \in 1 .. Len(procs) : finalize_resume(e) /\ Ledger(Executor(e), FALSE)
    \/ \E e \in 1 .. Len(procs) : complete_resume(e) /\ Ledger(Executor(e), FALSE)
    \/ \E e \in 1 .. Len(procs) : final_error_resume(e) /\ Ledger(Executor(e), FALSE)
    \/ \E e \in 1 .. Len(procs) : deadline_expires(e) /\ Ledger(Executor(e), FALSE)
    \/ \E e \in 1 .. Len(procs) : handler_notify(e) /\ Ledger(Executor(e), TRUE)
    \/ \E e \in 1 .. Len(procs) : process_task_finally(e) /\ Ledger(Executor(e), TRUE)
    \/ \E e \in threads : thread_exit(e) /\ UNCHANGED ledger

\* The websocket handler passes on whatever taskId the client sent.
Next ==
    \/ \E id \in Ids : add_task(id) /\ Ledger(Adder, FALSE)
    \/ Steps

Spec == Init /\ [][Next]_vars

\* The same scheduler driven by clients that never send a taskId twice.
NextFresh ==
    \/ \E id \in Ids : tasks[id] = 0 /\ add_task(id) /\ Ledger(Adder, FALSE)
    \/ Steps

SpecFresh == Init /\ [][NextFresh]_vars

\* The scheduler with a single slot and a longer burst of submissions, so
\* that several ids wait in the queue at once.
InitBurst == Init /\ max_concurrent_tasks = 1

NextBurst ==
    \/ \E id \in Ids : add_task_upto(id, MaxBurst) /\ Ledger(Adder, FALSE)
    \/ Steps

SpecBurst == InitBurst /\ [][NextBurst]_vars

\* The four ways the scheduler may be given its store.
Modes == {"enabled", "failing", "disabled", "absent"}

ModesInit ==
    /\ SchedulerStart /\ persistence \in Modes /\ ledger = NoLedger
    /\ job = NoJob /\ reel = NoReel /\ store = NoStore /\ sweeper = NoSweeper /\ asr = NoAsr

\* Clients that never send a taskId twice, in each mode of the store.
SpecModes == ModesInit /\ [][NextFresh]_vars

\* The scheduler together with the status column of its store: the table is
\* empty at start (a fresh database) and no write fails.
NewLedger == [on |-> TRUE, rows |-> [id \in Ids |-> "absent"], pending |-> <<>>]

LedgerInit ==
    /\ SchedulerStart /\ persistence = "enabled" /\ ledger = NewLedger
    /\ job = NoJob /\ reel = NoReel /\ store = NoStore /\ sweeper = NoSweeper /\ asr = NoAsr

LedgerNext ==
    \/ Next
    \/ save_task_commits

SpecLedger == LedgerInit /\ [][LedgerNext]_vars

\* The same with clients that never send a taskId twice.
LedgerNextFresh ==
    \/ NextFresh
    \/ save_task_commits

SpecLedgerFresh == LedgerInit /\ [][LedgerNextFresh]_vars

TypeOK ==
    /\ persistence \in Modes
    /\ max_concurrent_tasks \in 1 .. MaxK
    /\ processing_tasks \in 0 .. max_concurrent_tasks
    /\ \A r \in 1 .. Len(recs) : recs[r].status \in Statuses
    /\ \A id \in Ids : tasks[id] \in 0 .. Len(recs)

\* ================================================================ claims
JobsProcessing == {id \in Ids : StatusOf(id) = "processing"}

\* C1 (as claimed): in every reachable state at most max_concurrent_tasks
\* jobs have status 'processing', and processing_tasks never exceeds
\* max_concurrent_tasks.
C1_ConcurrencyBound ==
    /\ Cardinality(JobsProcessing) <= max_concurrent_tasks
    /\ processing_tasks <= max_concurrent_tasks

\* C2 (as claimed): the status of a job dict only moves pending -> processing,
\* pending -> cancelled, or processing -> a terminal status; a terminal
\* status never changes.
AllowedMove(a, b) ==
    \/ a = b
    \/ a = "pending" /\ b \in {"processing", "cancelled"}
    \/ a = "processing" /\ b \in Terminal

C2_StatusMonotone ==
    [][\A r \in 1 .. Len(recs) : AllowedMove(recs[r].status, recs'[r].status)]_vars

\* C3 (as claimed): no two process_task executions are active for the same
\* task id, and no id is dequeued and launched twice.
C3_SingleExecutor ==
    \A e1, e2 \in 1 .. Len(procs) :
        e1 # e2 => procs[e1].task_id # procs[e2].task_id

\* C4 (as claimed): a job for which cancel_task returned True while it was
\* pending is 'cancelled' and its status is never 'processing' afterwards.
C4_CancelledPendingNeverProcessing ==
    \A r \in 1 .. Len(recs) :
        <<r, "pending">> \in cancel_accepted => recs[r].status # "processing"

\* C5 (as claimed): a job for which cancel_task returned True while it was
\* 'processing' reaches 'cancelled' - checked when its executor has finished
\* without deadline expiry or stage exception - and after the cancelled
\* notification nothing else is sent, nor was a complete notification sent.
IsLast(seq, kind) ==
    \A n \in 1 .. Len(seq) : seq[n] = kind => n = Len(seq)

C5_CancelProcessingReachesCancelled ==
    \A e \in 1 .. Len(procs) :
        /\ ( /\ procs[e].pc = "done"
             /\ procs[e].outcome \notin {"timeout", "error"}
             /\ procs[e].task # 0
             /\ <<procs[e].task, "processing">> \in cancel_accepted )
           => recs[procs[e].task].status = "cancelled"
        /\ procs[e].outcome = "cancelled"
           => /\ IsLast(procs[e].sent, "cancelled")
              /\ \A n \in 1 .. Len(procs[e].sent) : procs[e].sent[n] # "complete"

\* C6: every step in which an executor ends (pc becomes "done", by any path)
\* lowers processing_tasks by one and, if the queue is non-empty, admits
\* exactly the head of the queue in the same step; no other step lowers the
\* counter.  With max_concurrent_tasks = 1 and no id submitted twice, at most
\* one executor is live and every queued job is still pending (or was
\* cancelled while pending).
Ends(e) == procs[e].pc # "done" /\ procs'[e].pc = "done"

AdmitsHead ==
    /\ task_queue' = Tail(task_queue)
    /\ Len(procs') = Len(procs) + 1
    /\ procs'[Len(procs')].task_id = Head(task_queue)
    /\ procs'[Len(procs')].pc = "start"

C6_EndStep ==
    /\ \A e \in 1 .. Len(procs) :
         Ends(e) =>
           IF task_queue # <<>>
           THEN AdmitsHead /\ processing_tasks' = processing_tasks
           ELSE /\ Len(procs') = Len(procs)
                /\ task_queue' = task_queue
                /\ processing_tasks' = processing_tasks - 1
    /\ processing_tasks' < processing_tasks
         => \E e \in 1 .. Len(procs) : Ends(e)
    /\ Cardinality({e \in 1 .. Len(procs) : Ends(e)}) <= 1

DistinctIds ==
    \A r1, r2 \in 1 .. Len(recs) : r1 # r2 => recs[r1].task_id # recs[r2].task_id

C6_SerialWhenOne ==
    (max_concurrent_tasks = 1 /\ DistinctIds) =>
        /\ Cardinality(LiveProcs) <= 1
        /\ \A n \in 1 .. Len(task_queue) :
             StatusOf(task_queue[n]) \in {"pending", "cancelled"}

C6_DrainOnCompletion == [][C6_EndStep]_vars /\ []C6_SerialWhenOne

\* C6 witness: with max_concurrent_tasks = 1 the finally block of the first
\* executor found one queued id and admitted it.
C6_Witness ==
    /\ max_concurrent_tasks = 1
    /\ admission_case.active /\ admission_case.by = "process_task"
    /\ Len(procs) = 2 /\ procs[1].pc = "done" /\ procs[2].pc = "start"
    /\ DistinctIds /\ StatusOf(procs[2].task_id) = "pending"
    /\ task_queue = <<>> /\ processing_tasks = 1

\* C7: once a call of process_next_task has found exactly one queued id and
\* exactly one free slot, that call and every further call of
\* process_next_task together launch exactly one executor, raise
\* processing_tasks by exactly one and leave the queue empty.
C7_IdempotentAdmission ==
    admission_case.active =>
        /\ Len(procs) = admission_case.base_procs + 1
        /\ processing_tasks = admission_case.base_pt + 1
        /\ task_queue = <<>>

\* C7 witness: the case was followed by redundant calls.
C7_Witness ==
    /\ admission_case.active
    /\ admission_case.calls >= 2
    /\ processing_tasks = max_concurrent_tasks

\* C8 (as claimed): an execution ends in the timeout branch, and a job has
\* status 'timeout', only if the deadline of wait_for expired during that
\* execution; a job that no executor has started is never 'timeout'.
C8_TimeoutOnlyOnDeadline ==
    /\ \A e \in 1 .. Len(procs) : procs[e].outcome = "timeout" => procs[e].expired
    /\ \A r \in 1 .. Len(recs) :
         recs[r].status = "timeout"
           => \E e \in 1 .. Len(procs) : procs[e].task = r /\ procs[e].expired

\* C9: the step in which the deadline expires sets the job's status to
\* 'timeout' and its error field to the timeout text; afterwards the timeout
\* branch sends exactly one notification, of error type, as its last message;
\* the return of an abandoned worker thread changes no job; and the executor's
\* slot is released when it ends.
ErrorTimeoutCount(seq) == Cardinality({n \in 1 .. Len(seq) : seq[n] = "error_timeout"})

C9_ExpiryStep ==
    \A e \in 1 .. Len(procs) :
        /\ (~procs[e].expired /\ procs'[e].expired)
             => /\ recs'[procs[e].task].status = "timeout"
                /\ recs'[procs[e].task].error = "timeout"
                /\ procs'[e].pc = "timeout_saved"
                /\ processing_tasks' = processing_tasks
        /\ (procs[e].expired /\ Ends(e))
             => processing_tasks' =
                  processing_tasks - 1 + (IF task_queue # <<>> THEN 1 ELSE 0)
        /\ (e \in threads /\ e \notin threads')
             => recs' = recs /\ tasks' = tasks

C9_ExpiryNotified ==
    \A e \in 1 .. Len(procs) :
        procs[e].expired =>
            /\ procs[e].pc \in {"timeout_saved", "notify_sent", "done"}
            /\ procs[e].outcome = "timeout"
            /\ procs[e].pc = "timeout_saved" => ErrorTimeoutCount(procs[e].sent) = 0
            /\ procs[e].pc \in {"notify_sent", "done"}
                 => /\ ErrorTimeoutCount(procs[e].sent) = 1
                    /\ IsLast(procs[e].sent, "error_timeout")
                    /\ \A n \in 1 .. Len(procs[e].sent) : procs[e].sent[n] # "error_task"

C9_TimeoutOutcome == [][C9_ExpiryStep]_vars /\ []C9_ExpiryNotified

\* C9 witness: a deadline expired while a worker thread was in flight, the
\* executor has sent its notification and ended, the thread has returned.
C9_Witness ==
    \E e \in 1 .. Len(procs) :
        /\ procs[e].expired /\ procs[e].pc = "done"
        /\ recs[procs[e].task].status = "timeout"
        /\ e \notin threads
        /\ procs[e].sent = <<"error_timeout">>

\* C10: a cancel_task(id) step returns True exactly when the job exists with
\* status pending or processing; for a processing job the status stays
\* 'processing' and the id joins the cancellation set; for an unknown id or a
\* terminal status it returns False and changes neither any status nor the
\* cancellation set.
C10_CancelPost(id) ==
    LET was == StatusOf(id) IN
    /\ cancel_result' = IF was \in {"pending", "processing"} THEN "True" ELSE "False"
    /\ was = "processing"
         => /\ recs' = recs
            /\ cancelled_tasks' = cancelled_tasks \cup {id}
    /\ was = "pending"
         => /\ recs'[tasks[id]].status = "cancelled"
            /\ cancelled_tasks' = cancelled_tasks \cup {id}
    /\ was \in {"absent"} \cup Terminal
         => /\ cancel_result' = "False"
            /\ recs' = recs
            /\ cancelled_tasks' = cancelled_tasks
    /\ tasks' = tasks /\ procs' = procs /\ task_queue' = task_queue
    /\ processing_tasks' = processing_tasks

C10_CancelResultAndFrame ==
    [][\A id \in Ids : cancel_task(id) => C10_CancelPost(id)]_vars

\* C10 witness: the last cancel_task call returned True for a job that is
\* processing, while another job is in a terminal status (the status for
\* which a call returns False).
C10_Witness ==
    /\ cancel_result = "True"
    /\ \E id \in Ids : StatusOf(id) = "processing" /\ id \in cancelled_tasks
                       /\ <<tasks[id], "processing">> \in cancel_accepted
    /\ \E id \in Ids : StatusOf(id) \in Terminal

\* ------------------------------------------------ one job's data, stage by stage
\* The data one execution of _process_task_core carries through its stages,
\* without a deadline: which videos are mapped, transcribed, merged, analysed,
\* cut and merged, and how the job ends.  SpecJob runs it without cancel_task,
\* SpecJobCancel with a cancel_task call at any point.
JobVideos == 3        \* videos in the job's payload
MaxSegments == 2      \* segments in one analysis result

Videos == 1 .. JobVideos

Range(seq) == {seq[n] : n \in 1 .. Len(seq)}

\* A segment of clip_order.txt: the video it names and whether
\* validate_clip_order accepts it.
Segments == [video : Videos, valid : BOOLEAN]

SegmentLists == UNION {[1 .. n -> Segments] : n \in 0 .. MaxSegments}

NewJob(exists, caption_enable) ==
    [stage |-> "map",
     exists |-> exists,                 \* os.path.exists(video path), per video
     caption_enable |-> caption_enable, \* processor.caption_enable
     i |-> 1,                           \* position of the running loop
     video_paths |-> <<>>,              \* keys of processor.video_paths, in insertion order
     reported |-> {},                   \* videos named in a "视频文件不存在" error message
     tried |-> <<>>,                    \* videos handed to process_single_video, in order
     transcripts |-> {},                \* videos with a transcript file in temp_dir
     spoken |-> {},                     \* videos whose transcript file holds a sentence
     clip_errors |-> {},                \* videos named in a "处理视频失败" error message
     merged |-> <<>>,                   \* videos in merged_transcripts.txt, in order
     fallback |-> FALSE,                \* the analysis call failed and the fallback ran
     clip_order |-> <<>>,               \* lines of clip_order.txt
     cuts |-> {},                       \* numbers n of the files clip_n.mp4 in cuts_dir
     final_video_path |-> "unset",      \* return of merge_video_clips: "None" or "merged"
     subtitles |-> "not_called",        \* return of add_subtitles
     raised |-> "none",                 \* what _run raised
     errors_sent |-> 0,                 \* job-level error messages (lines 272, 137)
     complete |-> "not_sent",           \* outputPath of the complete message
     cancel_requested |-> FALSE,        \* the job's id is in _cancelled_tasks
     socket_open |-> TRUE,              \* websocket.send succeeds
     status |-> "processing"]

\* _finalize_processing: except Exception -> error message, raise;
\* process_task: except Exception -> status 'error', error message.
Raise(j, what) ==
    [j EXCEPT !.stage = "ended", !.raised = what, !.status = "error",
              !.errors_sent = IF j.socket_open THEN @ + 2 ELSE @]

\* send_websocket_message awaits websocket.send without handling its
\* exception: on a closed socket the message of the step from old to new is
\* not delivered and the exception leaves the stage (out of the try of
\* _add_videos_to_processor, which catches FileNotFoundError only; through the
\* except clauses of _clip_videos and _finalize_processing, whose own error
\* message raises again) and reaches except Exception of process_task.
Sent(old, new) ==
    IF old.socket_open THEN new
    ELSE [new EXCEPT !.stage = "ended", !.raised = "send_failed", !.status = "error",
                     !.i = old.i, !.reported = old.reported,
                     !.clip_errors = old.clip_errors, !.complete = old.complete]

\* raise asyncio.CancelledError at a cancellation check, and the except
\* clause of process_task for it.
CancelJob(j) == [j EXCEPT !.stage = "ended", !.status = "cancelled"]

\* One iteration of the loop of _add_videos_to_processor.
AddVideo(j) ==
    LET v == j.i IN
    IF j.exists[v]
    THEN LET j1 == [j EXCEPT !.video_paths = Append(@, v), !.i = @ + 1]
         IN IF v = JobVideos THEN [j1 EXCEPT !.stage = "clip", !.i = 1] ELSE j1
    ELSE [j EXCEPT !.reported = @ \cup {v}, !.stage = "clip", !.i = 1]

\* A faulty _clip_videos iteration that lets the failure of one video end the job.
ClipVideo_aborting(j, out) ==
    LET v == j.i
        failed == v \notin Range(j.video_paths) \/ out = "fail"
        j1 == [j EXCEPT !.tried = Append(@, v), !.i = @ + 1,
                        !.transcripts = IF ~failed /\ out \in {"ok", "empty"}
                                        THEN @ \cup {v} ELSE @,
                        !.spoken = IF ~failed /\ out = "ok" THEN @ \cup {v} ELSE @]
    IN IF failed THEN Raise(j1, "process_single_video")
       ELSE IF v = JobVideos THEN [j1 EXCEPT !.stage = "merge_transcripts"] ELSE j1

\* One iteration of the loop of _clip_videos: process_single_video raises
\* FileNotFoundError for a video without mapping, and otherwise writes a
\* transcript with the sentences of the recognition result ("ok") or with none
\* when the result has no sentence ("empty"), returns None without a
\* transcript ("silent") or raises ("fail").
ClipVideo(j, out) ==
    LET v == j.i
        failed == v \notin Range(j.video_paths) \/ out = "fail"
        j1 == [j EXCEPT !.tried = Append(@, v), !.i = @ + 1,
                        !.transcripts = IF ~failed /\ out \in {"ok", "empty"}
                                        THEN @ \cup {v} ELSE @,
                        !.spoken = IF ~failed /\ out = "ok" THEN @ \cup {v} ELSE @,
                        !.clip_errors = IF failed THEN @ \cup {v} ELSE @]
    IN IF v = JobVideos THEN [j1 EXCEPT !.stage = "merge_transcripts"] ELSE j1

\* merge_transcripts and the check of _run after it.
MergeTranscripts(j) ==
    LET files == SelectSeq(j.video_paths, LAMBDA v : v \in j.transcripts)
    IN IF files = <<>>
       THEN Raise(j, "no_transcript")
       ELSE [j EXCEPT !.merged = files, !.stage = "analyze"]

\* _create_fallback_clip_order: for each "=== video ===" header of the merged
\* transcript that is followed by a timestamp line, one segment from the first
\* sentence's start to the last sentence's end; a header without a timestamp
\* line gives no segment.
FallbackClipOrder(merged, spoken) ==
    LET with_lines == SelectSeq(merged, LAMBDA v : v \in spoken)
    IN [n \in 1 .. Len(with_lines) |-> [video |-> with_lines[n], valid |-> TRUE]]

\* analyze_merged_transcripts and the check of _run after it: the analysis
\* answers with segs, or fails and the fallback writes the clip order.
Analyze(j, ok, segs) ==
    LET order == IF ok THEN segs ELSE FallbackClipOrder(j.merged, j.spoken)
    IN IF order = <<>>
       THEN Raise([j EXCEPT !.fallback = ~ok], "no_clip_order")
       ELSE [j EXCEPT !.fallback = ~ok, !.clip_order = order, !.stage = "cut"]

\* The segments process_clips keeps: those naming a mapped video.
ClipsInfo(j) == SelectSeq(j.clip_order, LAMBDA c : c.video \in Range(j.video_paths))

\* process_clips: no kept segment -> return; a segment validate_clip_order
\* rejects -> ValueError; else every kept segment is cut, and done is the set
\* of those whose cut succeeded.
ProcessClips(j, done) ==
    IF ClipsInfo(j) = <<>>
    THEN [j EXCEPT !.stage = "merge_clips"]
    ELSE IF \E n \in 1 .. Len(ClipsInfo(j)) : ~ClipsInfo(j)[n].valid
         THEN Raise(j, "invalid_segment")
         ELSE [j EXCEPT !.cuts = done, !.stage = "merge_clips"]

\* merge_video_clips: None without clip files; else the merged path, or the
\* exception of the ffmpeg fallback.
MergeVideoClips(j, ok) ==
    IF j.cuts = {}
    THEN [j EXCEPT !.final_video_path = "None", !.stage = "captions"]
    ELSE IF ok
         THEN [j EXCEPT !.final_video_path = "merged", !.stage = "captions"]
         ELSE Raise(j, "merge_failed")

\* A faulty add_subtitles that lets the exception of the subtitle step escape.
add_subtitles_raising(j, ok) ==
    IF ok THEN [j EXCEPT !.subtitles = "subtitled"] ELSE Raise(j, "add_subtitles")

\* VideoProcessor.add_subtitles on the merged video: the captioned video, or
\* on any exception of the subtitle step the video it was given.
add_subtitles(j, ok) ==
    [j EXCEPT !.subtitles = IF ok THEN "subtitled" ELSE j.final_video_path]

\* The end of _run and the complete message of _finalize_processing.
Captions(j, ok) ==
    LET j1 == IF j.caption_enable /\ j.final_video_path # "None"
              THEN add_subtitles(j, ok) ELSE j
    IN IF j1.stage = "ended" THEN j1
       ELSE [j1 EXCEPT !.complete = j.final_video_path, !.stage = "complete_sent"]

JobInit ==
    /\ SchedulerInit /\ max_concurrent_tasks = 1
    /\ job \in {NewJob(ex, c) : ex \in [Videos -> BOOLEAN], c \in BOOLEAN}
    /\ reel = NoReel /\ store = NoStore /\ sweeper = NoSweeper /\ asr = NoAsr

add_videos_step ==
    /\ job.stage = "map"
    /\ job' = IF job.cancel_requested /\ job.i = 1   \* line 159
              THEN CancelJob(job) ELSE Sent(job, AddVideo(job))
    /\ UNCHANGED <<sched_vars, reel, store, sweeper, asr>>

clip_videos_step ==
    /\ job.stage = "clip"
    /\ IF job.cancel_requested                       \* lines 176, 215
       THEN job' = CancelJob(job)
       ELSE \E out \in {"ok", "empty", "silent", "fail"} :
                job' = IF job.i = 1 /\ ~job.socket_open      \* the start message
                       THEN Sent(job, job) ELSE Sent(job, ClipVideo(job, out))
    /\ UNCHANGED <<sched_vars, reel, store, sweeper, asr>>

merge_transcripts_step ==
    /\ job.stage = "merge_transcripts"
    /\ job' = IF job.cancel_requested                \* line 188
              THEN CancelJob(job) ELSE MergeTranscripts(job)
    /\ UNCHANGED <<sched_vars, reel, store, sweeper, asr>>

analyze_step ==
    /\ job.stage = "analyze"
    /\ \/ \E segs \in SegmentLists : job' = Analyze(job, TRUE, segs)
       \/ job' = Analyze(job, FALSE, <<>>)
    /\ UNCHANGED <<sched_vars, reel, store, sweeper, asr>>

process_clips_step ==
    /\ job.stage = "cut"
    /\ \E done \in SUBSET (1 .. Len(ClipsInfo(job))) : job' = ProcessClips(job, done)
    /\ UNCHANGED <<sched_vars, reel, store, sweeper, asr>>

merge_video_clips_step ==
    /\ job.stage = "merge_clips"
    /\ \E ok \in BOOLEAN : job' = MergeVideoClips(job, ok)
    /\ UNCHANGED <<sched_vars, reel, store, sweeper, asr>>

captions_step ==
    /\ job.stage = "captions"
    /\ \E ok \in BOOLEAN : job' = Sent(job, Captions(job, ok))
    /\ UNCHANGED <<sched_vars, reel, store, sweeper, asr>>

\* process_task after the core returned: status 'completed' unless the id is
\* in _cancelled_tasks.
job_completed_step ==
    /\ job.stage = "complete_sent"
    /\ job' = [job EXCEPT !.status = IF job.cancel_requested THEN @ ELSE "completed",
                          !.stage = "ended"]
    /\ UNCHANGED <<sched_vars, reel, store, sweeper, asr>>

JobNext ==
    \/ add_videos_step
    \/ clip_videos_step
    \/ merge_transcripts_step
    \/ analyze_step
    \/ process_clips_step
    \/ merge_video_clips_step
    \/ captions_step
    \/ job_completed_step

SpecJob == JobInit /\ [][JobNext]_vars

\* cancel_task for the job while it is processing: the id joins _cancelled_tasks.
job_cancel_task ==
    /\ job.stage \notin {"none", "ended"}
    /\ job.status = "processing" /\ ~job.cancel_requested
    /\ job' = [job EXCEPT !.cancel_requested = TRUE]
    /\ UNCHANGED <<sched_vars, reel, store, sweeper, asr>>

JobCancelNext ==
    \/ JobNext
    \/ job_cancel_task

\* The job's stages with a cancel_task call arriving at any point.
SpecJobCancel == JobInit /\ [][JobCancelNext]_vars

\* The client's connection closes: every later websocket.send raises.
websocket_closes ==
    /\ job.stage \notin {"none", "ended"}
    /\ job.socket_open
    /\ job' = [job EXCEPT !.socket_open = FALSE]
    /\ UNCHANGED <<sched_vars, reel, store, sweeper, asr>>

JobSendNext ==
    \/ JobNext
    \/ websocket_closes

\* The job's stages with the socket closing at any point.
SpecJobSend == JobInit /\ [][JobSendNext]_vars

\* ------------------------------------ from the analysis text to the merged video
\* What _parse_analysis_to_clip_order, process_clips and merge_video_clips make
\* of the timestamp lines of one analysis result. Every video named is mapped
\* and VideoSeconds long. A time string "HH:MM:SS.mmm" is the tuple
\* <<HH, MM, SS, mmm>>; seconds are counted in milliseconds.
ReelVideos == 2       \* videos the analysis result may name
MaxListed == 2        \* timestamp lines in one analysis result
VideoSeconds == 60    \* length of every video, in seconds

ADJACENT_GAP_SECONDS == 2
END_PADDING_SECONDS == 1

TimeStrings == {<<0, 0, 0, 0>>, <<0, 0, 5, 0>>, <<0, 0, 10, 0>>, <<0, 0, 59, 0>>}

\* A timestamp line under its "=== video ===" header.
Lines == [video : 1 .. ReelVideos, start_time : TimeStrings, end_time : TimeStrings]

Listings == UNION {[1 .. n -> Lines] : n \in 0 .. MaxListed}

Min(a, b) == IF a <= b THEN a ELSE b

Max(a, b) == IF a >= b THEN a ELSE b

\* ------------------------------------------------- Python float arithmetic
\* _time_to_seconds returns Python floats (IEEE 754 binary64) and the parser
\* subtracts, divides and compares them. A float >= 0 is the record
\* [m, e] with value m * 2^e, where m is a natural number below 2^53 written
\* as a sequence of limbs, least significant first (a mantissa does not fit
\* the checker's integers). Every operation rounds its exact result to the
\* nearest float, ties to even, as the hardware does.
LIMB == 32768

RECURSIVE Trim(_)
Trim(a) == IF a # <<>> /\ a[Len(a)] = 0 THEN Trim(SubSeq(a, 1, Len(a) - 1)) ELSE a

RECURSIVE BigOf(_)
BigOf(n) == IF n = 0 THEN <<>> ELSE <<n % LIMB>> \o BigOf(n \div LIMB)

Limb(a, k) == IF k <= Len(a) THEN a[k] ELSE 0

RECURSIVE BigAddC(_, _, _, _)
BigAddC(a, b, k, carry) ==
    IF k > Len(a) /\ k > Len(b)
    THEN IF carry = 0 THEN <<>> ELSE <<carry>>
    ELSE LET t == Limb(a, k) + Limb(b, k) + carry
         IN <<t % LIMB>> \o BigAddC(a, b, k + 1, t \div LIMB)

BigAdd(a, b) == BigAddC(a, b, 1, 0)

RECURSIVE BigSubB(_, _, _, _)
BigSubB(a, b, k, borrow) ==
    IF k > Len(a) THEN <<>>
    ELSE LET t == a[k] - Limb(b, k) - borrow
         IN <<t % LIMB>> \o BigSubB(a, b, k + 1, IF t < 0 THEN 1 ELSE 0)

\* a - b for a >= b
BigSub(a, b) == Trim(BigSubB(a, b, 1, 0))

RECURSIVE BigLessFrom(_, _, _)
BigLessFrom(a, b, k) ==
    IF k = 0 THEN FALSE
    ELSE IF a[k] # b[k] THEN a[k] < b[k]
         ELSE BigLessFrom(a, b, k - 1)

BigLess(a, b) ==
    IF Len(a) # Len(b) THEN Len(a) < Len(b) ELSE BigLessFrom(a, b, Len(a))

RECURSIVE Pow2(_)
Pow2(n) == IF n = 0 THEN 1 ELSE 2 * Pow2(n - 1)

RECURSIVE BigMulSmall(_, _, _, _)
BigMulSmall(a, f, k, carry) ==
    IF k > Len(a)
    THEN IF carry = 0 THEN <<>> ELSE <<carry>>
    ELSE LET t == a[k] * f + carry
         IN <<t % LIMB>> \o BigMulSmall(a, f, k + 1, t \div LIMB)

\* a * 2^s
BigShl(a, s) ==
    IF a = <<>> THEN a
    ELSE [k \in 1 .. s \div 15 |-> 0] \o BigMulSmall(a, Pow2(s % 15), 1, 0)

RECURSIVE SmallBits(_)
SmallBits(n) == IF n = 0 THEN 0 ELSE 1 + SmallBits(n \div 2)

BitLen(a) == IF a = <<>> THEN 0 ELSE (Len(a) - 1) * 15 + SmallBits(a[Len(a)])

\* bit i (from 0) of a
Bit(a, i) == (Limb(a, i \div 15 + 1) \div Pow2(i % 15)) % 2

\* The largest digit d below LIMB with d * b <= r, found bit by bit.
RECURSIVE DigitFrom(_, _, _, _)
DigitFrom(r, b, bit, d) ==
    IF bit < 0 THEN d
    ELSE IF BigLess(r, BigMulSmall(b, d + Pow2(bit), 1, 0))
         THEN DigitFrom(r, b, bit - 1, d)
         ELSE DigitFrom(r, b, bit - 1, d + Pow2(bit))

\* One step of the long division: the digit d of the remainder r.
DivStep(b, q, r, d) == <<Trim(<<d>> \o q), BigSub(r, BigMulSmall(b, d, 1, 0))>>

DivDigit(b, q, r) == DivStep(b, q, r, DigitFrom(r, b, 14, 0))

\* Long division of a by b > 0, limb by limb from the top; qr is
\* <<quotient, remainder>> of the limbs above limb k. Each step is computed
\* before the next one is taken.
RECURSIVE BigDivFrom(_, _, _, _)
BigDivFrom(a, b, k, qr) ==
    IF k = 0 THEN qr
    ELSE CHOOSE out \in {BigDivFrom(a, b, k - 1, step) :
                            step \in {DivDigit(b, qr[1], Trim(<<a[k]>> \o qr[2]))}} : TRUE

BigDivMod(a, b) == BigDivFrom(a, b, Len(a), <<<<>>, <<>>>>)

FZero == [m |-> <<>>, e |-> 0]

\* <<a * 2^s, b>> for s >= 0 and <<a, b * 2^-s>> for s < 0
Scaled(a, b, s) == IF s >= 0 THEN <<BigShl(a, s), b>> ELSE <<a, BigShl(b, -s)>>

\* Ties to even: up when the remainder is more than half the divisor, or
\* exactly half of it with an odd quotient.
RoundsUp(q, twice, den) == BigLess(den, twice) \/ (twice = den /\ Bit(q, 0) = 1)

\* A mantissa that rounding carried to 2^53 is 2^52 with the next exponent.
Normal(m, e) ==
    IF BitLen(m) = 54 THEN [m |-> BigShl(<<1>>, 52), e |-> e + 1] ELSE [m |-> m, e |-> e]

Rounded(q, r, den, e) ==
    Normal(IF RoundsUp(q, BigAdd(r, r), den) THEN BigAdd(q, <<1>>) ELSE q, e)

RoundQuotient(qr, den, e) == Rounded(qr[1], qr[2], den, e)

RoundScaled(nd, e) == RoundQuotient(BigDivMod(nd[1], nd[2]), nd[2], e)

\* The float nearest to (a / b) * 2^e, ties to even, for a scaling s that
\* gives the quotient 53 bits: the remainder decides the rounding.
RoundAt(a, b, e, s) == RoundScaled(Scaled(a, b, s), e - s)

\* The quotient of a scaled pair has at most 53 bits.
Fits(nd) == BigLess(BigDivMod(nd[1], nd[2])[1], BigShl(<<1>>, 53))

RoundFit(a, b, e, s) ==
    IF Fits(Scaled(a, b, s)) THEN RoundAt(a, b, e, s) ELSE RoundAt(a, b, e, s - 1)

FloatOfRatio(a, b, e) ==
    IF a = <<>> THEN FZero ELSE RoundFit(a, b, e, 53 - (BitLen(a) - BitLen(b)))

\* float("<n>") and float("<n / 10^d>") for d decimal places
FloatOfInt(n) == FloatOfRatio(BigOf(n), <<1>>, 0)

FloatOfDecimal(n, scale) == FloatOfRatio(BigOf(n), BigOf(scale), 0)

\* The numerators of x and y over their common power of two.
Aligned(x, y) ==
    LET e == Min(x.e, y.e)
    IN [x |-> BigShl(x.m, x.e - e), y |-> BigShl(y.m, y.e - e), e |-> e]

LessAligned(a) == BigLess(a.x, a.y)

FLess(x, y) == LessAligned(Aligned(x, y))

AddAligned(a) == FloatOfRatio(BigAdd(a.x, a.y), <<1>>, a.e)

FAdd(x, y) == AddAligned(Aligned(x, y))

SubAligned(a) == FloatOfRatio(BigSub(a.x, a.y), <<1>>, a.e)

\* x - y for x >= y
FSub(x, y) == SubAligned(Aligned(x, y))

FDiv(x, y) == FloatOfRatio(x.m, y.m, x.e - y.e)

FMax(x, y) == IF FLess(x, y) THEN y ELSE x

FMin(x, y) == IF FLess(y, x) THEN y ELSE x

\* _time_to_seconds of ai_analyzer: float(HH) * 3600 + float(MM) * 60 +
\* float("SS.mmm"); the two products are whole numbers and exact.
ai_time_to_seconds(time_str) ==
    FAdd(FAdd(FloatOfInt(time_str[1] * 3600), FloatOfInt(time_str[2] * 60)),
         FloatOfDecimal(time_str[3] * 1000 + time_str[4], 1000))

\* utils.time.time_to_seconds: the float h * 3600 + m * 60 + s + float("0.mmm").
float_seconds(time_str) ==
    FAdd(FloatOfInt(time_str[1] * 3600 + time_str[2] * 60 + time_str[3]),
         FloatOfDecimal(time_str[4], 1000))

\* The same number in milliseconds: two time strings compare as their floats
\* do, and seconds_to_time rounds to the millisecond.
time_to_seconds(time_str) ==
    ((time_str[1] * 60 + time_str[2]) * 60 + time_str[3]) * 1000 + time_str[4]

seconds_to_time(seconds) ==
    <<seconds \div 3600000, (seconds % 3600000) \div 60000,
      (seconds % 60000) \div 1000, seconds % 1000>>

\* The duplicate test of the parser on the four times in seconds: the two
\* ranges overlap, and the overlap divided by the shorter of the two
\* durations is more than 0.8.
OverlapTest(start_sec, end_sec, seen_start, seen_end, overlap_start, overlap_end) ==
    /\ FLess(overlap_start, overlap_end)
    /\ FLess(FloatOfDecimal(8, 10),
             FDiv(FSub(overlap_end, overlap_start),
                  FMin(FSub(end_sec, start_sec), FSub(seen_end, seen_start))))

\* The overlap of the two ranges: from the later start to the earlier end.
DuplicateRanges(start_sec, end_sec, seen_start, seen_end) ==
    OverlapTest(start_sec, end_sec, seen_start, seen_end,
                    FMax(start_sec, seen_start), FMin(end_sec, seen_end))

IsDuplicate(line, seen) ==
    /\ seen.video = line.video
    /\ DuplicateRanges(ai_time_to_seconds(line.start_time), ai_time_to_seconds(line.end_time),
                 ai_time_to_seconds(seen.start_time), ai_time_to_seconds(seen.end_time))

RECURSIVE ParseLines(_, _, _)
ParseLines(text, n, clip_order) ==
    IF n > Len(text) THEN clip_order
    ELSE LET line == text[n]
             skip == \/ ~FLess(ai_time_to_seconds(line.start_time),
                               ai_time_to_seconds(line.end_time))
                     \/ \E k \in 1 .. Len(clip_order) : IsDuplicate(line, clip_order[k])
         IN ParseLines(text, n + 1, IF skip THEN clip_order ELSE Append(clip_order, line))

\* _parse_analysis_to_clip_order: the lines in the order of the text, without
\* the ranges that are empty or duplicates of a line kept before.
parse_analysis_to_clip_order(text) == ParseLines(text, 1, <<>>)

\* The overlap test of validate_clip_order: the code sorts the clips of a
\* video by start and compares neighbours; some neighbours overlap exactly
\* when some two clips of the video do.
same_video_overlap(clips_info) ==
    \E a, b \in 1 .. Len(clips_info) :
        /\ a # b /\ clips_info[a].video = clips_info[b].video
        /\ time_to_seconds(clips_info[a].start_time)
              <= time_to_seconds(clips_info[b].start_time)
        /\ time_to_seconds(clips_info[a].end_time)
              > time_to_seconds(clips_info[b].start_time)

\* validate_clip_order: no error for any clip's times, and none for overlap.
validate_clip_order(clips_info) ==
    /\ \A n \in 1 .. Len(clips_info) :
         LET start_time == time_to_seconds(clips_info[n].start_time)
             end_time == time_to_seconds(clips_info[n].end_time)
         IN /\ start_time < end_time
            /\ start_time <= VideoSeconds * 1000
            /\ end_time <= VideoSeconds * 1000 + 1000
    /\ ~same_video_overlap(clips_info)

pad_end(clip) ==
    [clip EXCEPT !.end_time =
        seconds_to_time(time_to_seconds(@) + END_PADDING_SECONDS * 1000)]

\* The loop of merge_adjacent_clips. The field lines of a clip, which the code
\* does not keep, lists the positions of clips_info the clip was built from.
RECURSIVE MergeLoop(_, _, _, _)
MergeLoop(clips_info, i, current, merged) ==
    IF i > Len(clips_info) THEN Append(merged, pad_end(current))
    ELSE LET next_clip == clips_info[i]
             cur_end == float_seconds(current.end_time)
             next_start == float_seconds(next_clip.start_time)
         IN IF current.video = next_clip.video
                /\ \/ ~FLess(cur_end, next_start)       \* a difference <= 0
                   \/ ~FLess(FloatOfInt(ADJACENT_GAP_SECONDS), FSub(next_start, cur_end))
            THEN MergeLoop(clips_info, i + 1,
                           [current EXCEPT !.end_time = next_clip.end_time,
                                           !.lines = Append(@, i)],
                           merged)
            ELSE MergeLoop(clips_info, i + 1,
                           [video |-> next_clip.video,
                            start_time |-> next_clip.start_time,
                            end_time |-> next_clip.end_time, lines |-> <<i>>],
                           Append(merged, pad_end(current)))

merge_adjacent_clips(clips_info) ==
    IF clips_info = <<>> THEN <<>>
    ELSE MergeLoop(clips_info, 2,
                   [video |-> clips_info[1].video,
                    start_time |-> clips_info[1].start_time,
                    end_time |-> clips_info[1].end_time, lines |-> <<1>>],
                   <<>>)

\* The file clip_{i}.mp4 as the cut loop of process_clips writes it: the range
\* of the i-th merged clip, its end moved back to the end of the video.
CutFile(merged_clips, i) ==
    [n |-> i,
     video |-> merged_clips[i].video,
     start_sec |-> time_to_seconds(merged_clips[i].start_time),
     end_sec |-> Min(time_to_seconds(merged_clips[i].end_time), VideoSeconds * 1000),
     lines |-> merged_clips[i].lines]

\* process_clips: nothing to cut -> return; a rejected clip order ->
\* ValueError; else clip_{i}.mp4 for the i-th merged clip, unless it starts at
\* or after the end of the video or its cut fails (done: the cuts that succeed).
process_clips(r, done) ==
    IF r.clip_order = <<>> THEN [r EXCEPT !.stage = "merge_clips"]
    ELSE IF ~validate_clip_order(r.clip_order) THEN [r EXCEPT !.stage = "error"]
    ELSE LET merged_clips == merge_adjacent_clips(r.clip_order)
         IN [r EXCEPT !.stage = "merge_clips",
                      !.files = {CutFile(merged_clips, i) :
                                   i \in {d \in done \cap (1 .. Len(merged_clips)) :
                                            time_to_seconds(merged_clips[d].start_time)
                                              < VideoSeconds * 1000}}]

\* files.sort(key = the number in the file name).
sort_by_number(files) ==
    [k \in 1 .. Cardinality(files) |->
        CHOOSE f \in files : Cardinality({g \in files : g.n < f.n}) = k - 1]

\* merge_video_clips: None without clip files; else the files concatenated in
\* the order of their numbers, or the exception of the concatenation.
merge_video_clips(r, ok) ==
    IF r.files = {} THEN [r EXCEPT !.stage = "final"]
    ELSE IF ok THEN [r EXCEPT !.stage = "final", !.final = sort_by_number(r.files)]
    ELSE [r EXCEPT !.stage = "error"]

NewReel(text) ==
    [stage |-> "analysis",
     listed |-> text,        \* the timestamp lines of the analysis result, in its order
     clip_order |-> <<>>,    \* the lines of clip_order.txt
     files |-> {},           \* the files clip_n.mp4 of cuts_dir
     final |-> <<>>]         \* the clips of the merged video, in playing order

ReelInit ==
    /\ SchedulerInit /\ max_concurrent_tasks = 1
    /\ job = NoJob /\ store = NoStore /\ sweeper = NoSweeper /\ asr = NoAsr
    /\ reel \in {NewReel(text) : text \in Listings}

\* analyze_merged_transcripts writes clip_order.txt; _run raises when it is empty.
reel_analyze ==
    /\ reel.stage = "analysis"
    /\ LET clip_order == parse_analysis_to_clip_order(reel.listed)
       IN reel' = [reel EXCEPT !.clip_order = clip_order,
                               !.stage = IF clip_order = <<>> THEN "error" ELSE "cut"]
    /\ UNCHANGED <<sched_vars, job, store, sweeper, asr>>

reel_process_clips ==
    /\ reel.stage = "cut"
    /\ \E done \in SUBSET (1 .. Len(reel.clip_order)) : reel' = process_clips(reel, done)
    /\ UNCHANGED <<sched_vars, job, store, sweeper, asr>>

reel_merge_video_clips ==
    /\ reel.stage = "merge_clips"
    /\ \E ok \in BOOLEAN : reel' = merge_video_clips(reel, ok)
    /\ UNCHANGED <<sched_vars, job, store, sweeper, asr>>

ReelNext ==
    \/ reel_analyze
    \/ reel_process_clips
    \/ reel_merge_video_clips

SpecReel == ReelInit /\ [][ReelNext]_vars

\* Analysis results whose timestamps have a fraction of a second.
FineTimeStrings == {<<0, 0, 0, 0>>, <<0, 0, 1, 400>>, <<0, 0, 2, 200>>, <<0, 0, 2, 400>>}

FineLines == [video : 1 .. ReelVideos, start_time : FineTimeStrings, end_time : FineTimeStrings]

FineListings == UNION {[1 .. n -> FineLines] : n \in 0 .. MaxListed}

ParseInit ==
    /\ SchedulerInit /\ max_concurrent_tasks = 1
    /\ job = NoJob /\ store = NoStore /\ sweeper = NoSweeper /\ asr = NoAsr
    /\ reel \in {NewReel(text) : text \in FineListings}

SpecParse == ParseInit /\ [][ReelNext]_vars

\* Clip orders whose segments lie a fraction of a second apart.
GapTimeStrings == {<<0, 0, 0, 0>>, <<0, 0, 2, 400>>, <<0, 0, 4, 400>>, <<0, 0, 5, 0>>}

GapLines == [video : 1 .. ReelVideos, start_time : GapTimeStrings, end_time : GapTimeStrings]

GapListings == UNION {[1 .. n -> GapLines] : n \in 0 .. MaxListed}

MergeInit ==
    /\ SchedulerInit /\ max_concurrent_tasks = 1
    /\ job = NoJob /\ store = NoStore /\ sweeper = NoSweeper /\ asr = NoAsr
    /\ reel \in {NewReel(text) : text \in GapListings}

SpecMerge == MergeInit /\ [][ReelNext]_vars

\* ------------------------------------------------------------ the tasks table
\* The rows TaskPersistence keeps, one per task id.  Time is counted in days;
\* every save_task call happens a day after the operation before it, and its
\* timestamps are the day of the call; 0 stands for a NULL timestamp and
\* "NULL" for a NULL text column.
MaxSaves == 4         \* the last day on which a save_task call may begin
MaxElapsed == 8       \* days that may pass before a cleanup_old_tasks call
AUTO_CLEANUP_DAYS == 7

NoRow ==
    [status |-> "none", data |-> "NULL", output_dir |-> "NULL", error |-> "NULL",
     created_at |-> 0, started_at |-> 0, completed_at |-> 0, updated_at |-> 0]

\* The arguments of a save_task call: a status and the three optional
\* columns, None being "NULL".
SaveArgs(status, data, output_dir, error) ==
    [status |-> status, data |-> data, output_dir |-> output_dir, error |-> error]

\* The save_task calls of TaskManager: add_task, the status-only saves of
\* process_task and cancel_task, and the saves of the timeout and error clauses.
SchedulerSaves ==
    {SaveArgs("pending", "payload", "dir", "NULL")}
        \cup {SaveArgs(status, "NULL", "NULL", "NULL") :
                 status \in {"processing", "completed", "cancelled"}}
        \cup {SaveArgs(status, "NULL", "NULL", "message") :
                 status \in {"timeout", "error"}}

\* A faulty save that sets the timestamps on every save of the status.
SaveRow_overwriting(row, call, now) ==
    LET saved == IF row.status # "none"
                 THEN [row EXCEPT !.status = call.status, !.data = call.data,
                                  !.output_dir = call.output_dir,
                                  !.error = call.error, !.updated_at = now]
                 ELSE [NoRow EXCEPT !.status = call.status, !.data = call.data,
                                    !.output_dir = call.output_dir,
                                    !.error = call.error,
                                    !.created_at = now, !.updated_at = now]
    IN IF call.status = "processing" THEN [saved EXCEPT !.started_at = now]
       ELSE IF call.status \in Terminal THEN [saved EXCEPT !.completed_at = now]
       ELSE saved

\* The statements of one save_task on the row of its task_id: UPDATE or
\* INSERT, then started_at / completed_at WHERE ... IS NULL.
SaveRow(row, call, now) ==
    LET saved == IF row.status # "none"
                 THEN [row EXCEPT !.status = call.status, !.data = call.data,
                                  !.output_dir = call.output_dir,
                                  !.error = call.error, !.updated_at = now]
                 ELSE [NoRow EXCEPT !.status = call.status, !.data = call.data,
                                    !.output_dir = call.output_dir,
                                    !.error = call.error,
                                    !.created_at = now, !.updated_at = now]
    IN IF call.status = "processing"
       THEN [saved EXCEPT !.started_at = IF @ = 0 THEN now ELSE @]
       ELSE IF call.status \in Terminal
            THEN [saved EXCEPT !.completed_at = IF @ = 0 THEN now ELSE @]
            ELSE saved

\* A call cleanup_old_tasks(days) is (given = TRUE, days); cleanup_old_tasks()
\* is (given = FALSE, 0).
CleanupCall(called, given, days, now, deleted) ==
    [called |-> called, given |-> given, days |-> days, now |-> now,
     deleted |-> deleted]

NoCleanup == CleanupCall(FALSE, FALSE, 0, 0, 0)

NewStore(enabled, logging) ==
    [enabled |-> enabled,              \* TaskPersistence.enabled
     logging |-> logging,              \* whether `saved` is kept
     now |-> 0,                        \* the day of the last operation
     rows |-> [id \in Ids |-> NoRow],  \* table tasks
     saved |-> <<>>,                   \* the saves that were committed, in order
     progress |-> [id \in Ids |-> "none"],  \* status read by an update_task_progress
                                            \* that has not called save_task yet
     cleanup |-> NoCleanup]            \* the last cleanup_old_tasks call: its
                                       \* argument, its day, its return value

StoreInit ==
    /\ SchedulerInit /\ max_concurrent_tasks = 1
    /\ job = NoJob /\ reel = NoReel /\ sweeper = NoSweeper /\ asr = NoAsr
    /\ store \in {NewStore(enabled, TRUE) : enabled \in BOOLEAN}

\* The body of save_task on an enabled store: all its statements are
\* committed together, or an exception is logged and nothing is written
\* (ok = FALSE).
Saved(st, task_id, call, ok) ==
    LET now == st.now + 1
    IN IF ok
       THEN [st EXCEPT !.now = now,
                       !.rows[task_id] = SaveRow(@, call, now),
                       !.saved = IF st.logging
                                 THEN Append(@, [task_id |-> task_id,
                                                 status |-> call.status, now |-> now])
                                 ELSE @]
       ELSE [st EXCEPT !.now = now]

\* save_task(task_id, status, data, output_dir, error) on an enabled store.
save_task(task_id, call, ok) ==
    /\ store.enabled
    /\ store.now < MaxSaves
    /\ store' = Saved(store, task_id, call, ok)
    /\ UNCHANGED <<sched_vars, job, reel, sweeper, asr>>

save_task_disabled ==
    /\ ~store.enabled
    /\ UNCHANGED vars

StoreNext ==
    \/ \E task_id \in Ids, call \in SchedulerSaves, ok \in BOOLEAN :
          save_task(task_id, call, ok)
    \/ save_task_disabled

SpecStore == StoreInit /\ [][StoreNext]_vars

\* update_task_progress up to its call of save_task: get_task reads the row
\* without the lock; nothing follows unless the row exists with a payload.
update_task_progress_read(task_id) ==
    /\ store.progress[task_id] = "none"
    /\ store' = IF /\ store.enabled
                   /\ store.rows[task_id].status # "none"
                   /\ store.rows[task_id].data # "NULL"
                THEN [store EXCEPT !.progress[task_id] = store.rows[task_id].status]
                ELSE store
    /\ UNCHANGED <<sched_vars, job, reel, sweeper, asr>>

\* The rest of update_task_progress: save_task(task_id, task['status'], data)
\* with the status that was read and the payload with the progress added.
update_task_progress_save(task_id, ok) ==
    /\ store.progress[task_id] # "none"
    /\ store.now < MaxSaves
    /\ store' = [Saved(store, task_id,
                       SaveArgs(store.progress[task_id], "progress", "NULL", "NULL"),
                       ok)
                   EXCEPT !.progress[task_id] = "none"]
    /\ UNCHANGED <<sched_vars, job, reel, sweeper, asr>>

\* delete_task(task_id), under the lock.
delete_task(task_id, ok) ==
    /\ store' = IF store.enabled /\ ok
                THEN [store EXCEPT !.rows[task_id] = NoRow]
                ELSE store
    /\ UNCHANGED <<sched_vars, job, reel, sweeper, asr>>

\* The rows DELETE ... WHERE status IN (...) AND completed_at < cutoff removes;
\* a NULL completed_at compares with nothing.
Expired(rows, cutoff) ==
    {id \in Ids : /\ rows[id].status \in Terminal
                  /\ rows[id].completed_at # 0
                  /\ rows[id].completed_at < cutoff}

\* days or PERSISTENCE_CONFIG.get("auto_cleanup_days", 7)
retention_days(given, days) ==
    IF given /\ days # 0 THEN days ELSE AUTO_CLEANUP_DAYS

\* The store after cleanup_old_tasks, called `elapsed` days after the last
\* operation; it returns cursor.rowcount, or 0 when the statement raises
\* (ok = FALSE) or the store is disabled.
Cleaned(st, given, days, elapsed, ok) ==
    LET now == st.now + elapsed
        cutoff == now - retention_days(given, days)
        gone == Expired(st.rows, cutoff)
    IN IF ~st.enabled
       THEN [st EXCEPT !.cleanup = CleanupCall(TRUE, given, days, now, 0)]
       ELSE IF ok
       THEN [st EXCEPT
               !.now = now,
               !.rows = [id \in Ids |-> IF id \in gone THEN NoRow ELSE @[id]],
               !.cleanup = CleanupCall(TRUE, given, days, now, Cardinality(gone))]
       ELSE [st EXCEPT
               !.now = now,
               !.cleanup = CleanupCall(TRUE, given, days, now, 0)]

cleanup_old_tasks(given, days, elapsed, ok) ==
    /\ store.now <= MaxSaves
    /\ store' = Cleaned(store, given, days, elapsed, ok)
    /\ UNCHANGED <<sched_vars, job, reel, sweeper, asr>>

MaxDays == 2          \* the largest retention window passed to cleanup_old_tasks

\* The arguments of cleanup_old_tasks: no days, or 0 .. MaxDays.
CleanupArgs ==
    {<<FALSE, 0>>} \cup {<<TRUE, days>> : days \in 0 .. MaxDays}

TableNext ==
    \/ \E task_id \in Ids, call \in SchedulerSaves, ok \in BOOLEAN :
          save_task(task_id, call, ok)
    \/ save_task_disabled
    \/ \E task_id \in Ids : update_task_progress_read(task_id)
    \/ \E task_id \in Ids, ok \in BOOLEAN : update_task_progress_save(task_id, ok)
    \/ \E task_id \in Ids, ok \in BOOLEAN : delete_task(task_id, ok)
    \/ \E args \in CleanupArgs, elapsed \in {0, MaxElapsed}, ok \in BOOLEAN :
          cleanup_old_tasks(args[1], args[2], elapsed, ok)

TableInit ==
    /\ SchedulerInit /\ max_concurrent_tasks = 1
    /\ job = NoJob /\ reel = NoReel /\ sweeper = NoSweeper /\ asr = NoAsr
    /\ store \in {NewStore(enabled, FALSE) : enabled \in BOOLEAN}

\* Every operation of TaskPersistence that writes, in any interleaving.
SpecTable == TableInit /\ [][TableNext]_vars

\* ------------------------------------------------------------ the cleanup loop
\* main() of the websocket server starts the cleanup scheduler, serves, and
\* stops the scheduler in its finally clause; cleanup_loop is the asyncio task
\* start_cleanup_scheduler creates.
MaxStored == 2        \* save_task calls of the scheduler while the loop runs

NewSweeper ==
    [main |-> "start",        \* start, serving, stopping (awaiting the task), stopped
     task |-> "none",         \* _cleanup_task: none, created, sleeping, purging,
                              \* finished (returned), cancelled (never ran)
     cancel_sent |-> FALSE,   \* cancel() was called and CancelledError is not yet thrown
     failed |-> FALSE,        \* the last purge raised and no purge has begun since
     retried |-> FALSE]       \* a purge has begun after a purge that raised

\* A loop that leaves on an exception of the purge.
on_exception_breaking(task) == "finished"

\* except Exception: the error is logged and the loop goes on to the next sleep.
on_exception(task) == "sleeping"

\* A loop that treats CancelledError like any exception.
on_cancelled_continuing(task) == IF task = "created" THEN "cancelled" ELSE "sleeping"

\* CancelledError thrown into the task: a task that never ran is cancelled;
\* inside the loop, except asyncio.CancelledError: break, and the task returns.
on_cancelled(task) == IF task = "created" THEN "cancelled" ELSE "finished"

SweeperInit ==
    /\ SchedulerInit /\ max_concurrent_tasks = 1
    /\ job = NoJob /\ reel = NoReel
    /\ store \in {NewStore(enabled, FALSE) : enabled \in BOOLEAN}
    /\ sweeper = NewSweeper /\ asr = NoAsr

\* start_cleanup_scheduler: nothing without an enabled store, else create_task.
start_cleanup_scheduler ==
    /\ sweeper.main = "start"
    /\ sweeper' = [sweeper EXCEPT !.main = "serving",
                                  !.task = IF store.enabled THEN "created" ELSE "none"]
    /\ UNCHANGED <<sched_vars, job, reel, store, asr>>

\* The task's first step: into the loop, up to asyncio.sleep.
cleanup_loop_begin ==
    /\ sweeper.task = "created" /\ ~sweeper.cancel_sent
    /\ sweeper' = [sweeper EXCEPT !.task = "sleeping"]
    /\ UNCHANGED <<sched_vars, job, reel, store, asr>>

\* asyncio.sleep returns: the loop calls cleanup_old_tasks().
sleep_elapses ==
    /\ sweeper.task = "sleeping" /\ ~sweeper.cancel_sent
    /\ sweeper' = [sweeper EXCEPT !.task = "purging", !.failed = FALSE,
                                  !.retried = @ \/ sweeper.failed]
    /\ UNCHANGED <<sched_vars, job, reel, store, asr>>

\* cleanup_old_tasks() returns (the time it ran at is capped).
purge_returns(elapsed, ok) ==
    /\ sweeper.task = "purging" /\ ~sweeper.cancel_sent
    /\ elapsed = 0 \/ store.now <= MaxSaves
    /\ store' = Cleaned(store, FALSE, 0, elapsed, ok)
    /\ sweeper' = [sweeper EXCEPT !.task = "sleeping"]
    /\ UNCHANGED <<sched_vars, job, reel, asr>>

\* cleanup_old_tasks() raises an exception.
purge_raises ==
    /\ sweeper.task = "purging" /\ ~sweeper.cancel_sent
    /\ sweeper' = [sweeper EXCEPT !.task = on_exception(@), !.failed = TRUE]
    /\ UNCHANGED <<sched_vars, job, reel, store, asr>>

\* stop_cleanup_scheduler up to `await self._cleanup_task`; it returns at once
\* when no task was created.
stop_cleanup_scheduler ==
    /\ sweeper.main = "serving"
    /\ sweeper' = IF sweeper.task = "none"
                  THEN [sweeper EXCEPT !.main = "stopped"]
                  ELSE [sweeper EXCEPT
                          !.main = "stopping",
                          !.cancel_sent = sweeper.task \notin {"finished", "cancelled"}]
    /\ UNCHANGED <<sched_vars, job, reel, store, asr>>

\* CancelledError is thrown into the task where it is suspended.  Inside
\* cleanup_old_tasks the DELETE is committed or not, depending on the await it
\* is thrown at.
cancel_delivered(committed) ==
    /\ sweeper.cancel_sent
    /\ store' = IF sweeper.task = "purging" /\ committed
                THEN Cleaned(store, FALSE, 0, 0, TRUE)
                ELSE store
    /\ sweeper' = [sweeper EXCEPT !.task = on_cancelled(@), !.cancel_sent = FALSE]
    /\ UNCHANGED <<sched_vars, job, reel, asr>>

\* `await self._cleanup_task` returns or raises CancelledError, which is passed.
stop_returns ==
    /\ sweeper.main = "stopping"
    /\ sweeper.task \in {"finished", "cancelled"}
    /\ sweeper' = [sweeper EXCEPT !.main = "stopped"]
    /\ UNCHANGED <<sched_vars, job, reel, store, asr>>

purge_ends ==
    \/ \E elapsed \in {0, MaxElapsed}, ok \in BOOLEAN : purge_returns(elapsed, ok)
    \/ purge_raises

SweeperNext ==
    \/ \E task_id \in Ids, call \in SchedulerSaves, ok \in BOOLEAN :
          store.now < MaxStored /\ save_task(task_id, call, ok)
    \/ start_cleanup_scheduler
    \/ cleanup_loop_begin
    \/ sleep_elapses
    \/ purge_ends
    \/ stop_cleanup_scheduler
    \/ \E committed \in BOOLEAN : cancel_delivered(committed)
    \/ stop_returns

SpecSweeper == SweeperInit /\ [][SweeperNext]_vars

\* The event loop runs every task that is ready, timers fire and store
\* operations end; when main() leaves its serving block is up to the operator.
SpecSweeperFair ==
    /\ SpecSweeper
    /\ WF_vars(start_cleanup_scheduler)
    /\ WF_vars(cleanup_loop_begin)
    /\ WF_vars(sleep_elapses)
    /\ WF_vars(purge_ends)
    /\ WF_vars(\E committed \in BOOLEAN : cancel_delivered(committed))
    /\ WF_vars(stop_returns)

\* C11 (as claimed): a job that has reached a terminal status and whose
\* executor has ended (here: not through the timeout branch) was sent exactly one
\* lifecycle notification, of the type matching the status: complete for
\* completed, cancelled for cancelled, an error-typed one for error and timeout.
MatchingNotification(status, kind) ==
    \/ status = "completed" /\ kind = "complete"
    \/ status = "cancelled" /\ kind = "cancelled"
    \/ status = "error" /\ kind \in {"error_task", "error_finalize"}
    \/ status = "timeout" /\ kind \in {"error_timeout", "error_finalize"}

Admitted == [e \in 1 .. Len(procs) |-> procs[e].task_id]

EnqueueOrder == Admitted \o task_queue

C12_FifoStep ==
    /\ \/ EnqueueOrder' = EnqueueOrder
       \/ \E id \in Ids : EnqueueOrder' = Append(EnqueueOrder, id)
    /\ \/ Admitted' = Admitted
       \/ /\ Len(Admitted') = Len(Admitted) + 1
          /\ SubSeq(Admitted', 1, Len(Admitted)) = Admitted

C12_FifoAdmission == [][C12_FifoStep]_vars

\* C12 witness: two different ids waited in the queue together behind a
\* running job; the job has ended and the id enqueued first was launched
\* while the other still waits.
C12_Witness ==
    /\ Len(procs) = 2 /\ procs[1].pc = "done" /\ procs[2].pc # "done"
    /\ Len(task_queue) = 1
    /\ task_queue[1] # procs[2].task_id
    /\ add_waiting = <<>>

\* C13 (as claimed): when the file of exactly one video is missing, then
\* once _add_videos_to_processor is over the missing file was reported and
\* every other video is mapped, whether listed before or after the missing
\* one; and no other video fails in _clip_videos for want of a mapping.
C13_MissingFileTolerated ==
    (job.stage \notin {"none", "map"}
       /\ Cardinality({v \in Videos : ~job.exists[v]}) = 1) =>
        \A v \in Videos :
            IF job.exists[v]
            THEN v \in Range(job.video_paths)
            ELSE v \in job.reported

\* C14: an iteration of _clip_videos in which process_single_video fails
\* sends an error message for that video, keeps status 'processing' and goes
\* on to the next video (or, after the last one, to finalization); the loop
\* visits every video in submission order.
C14_ClipStep ==
    (job.stage = "clip" /\ job' # job) =>
        LET v == job.i IN
        /\ job'.tried = Append(job.tried, v)
        /\ job'.status = "processing"
        /\ job'.errors_sent = job.errors_sent
        /\ IF v = JobVideos
           THEN job'.stage = "merge_transcripts"
           ELSE job'.stage = "clip" /\ job'.i = v + 1
        /\ v \notin job'.transcripts => (v \in job'.clip_errors \/ v \in Range(job.video_paths))
        /\ v \notin Range(job.video_paths) => v \in job'.clip_errors

C14_AllTried ==
    (job.stage \notin {"none", "map", "clip"}) => job.tried = [n \in Videos |-> n]

RECURSIVE IsSubSeq(_, _)
IsSubSeq(a, b) ==
    IF a = <<>> THEN TRUE
    ELSE IF b = <<>> THEN FALSE
    ELSE IF Head(a) = Head(b) THEN IsSubSeq(Tail(a), Tail(b))
    ELSE IsSubSeq(a, Tail(b))

\* C15 (as claimed): the merged video plays the segments in the order the
\* analysis listed them: the clip order is the listing without the skipped
\* lines, the clips of the merged video follow the clip order, and each clip
\* shows the segments it was built from, one after the other.
C15_OrderPreserved ==
    reel.stage = "final" =>
        LET final == reel.final
            clip_order == reel.clip_order
        IN /\ IsSubSeq(clip_order, reel.listed)
           /\ \A a, b \in 1 .. Len(final) :
                a < b => \A x \in Range(final[a].lines), y \in Range(final[b].lines) : x < y
           /\ \A a \in 1 .. Len(final) :
                /\ \A x \in Range(final[a].lines) :
                     /\ final[a].video = clip_order[x].video
                     /\ final[a].start_sec <= time_to_seconds(clip_order[x].start_time)
                     /\ time_to_seconds(clip_order[x].end_time) <= final[a].end_sec
                /\ \A x, y \in Range(final[a].lines) :
                     x < y => time_to_seconds(clip_order[x].end_time)
                                <= time_to_seconds(clip_order[y].start_time)

\* C16 (as claimed): when the analysis call fails, the job goes on to the
\* cut stage without an error, and the clip order written by the fallback has
\* exactly one segment for each video of the merged transcript, in the order
\* the videos were submitted.
C16_FallbackStep ==
    (job.stage = "analyze" /\ job'.fallback) =>
        /\ job'.stage = "cut" /\ job'.status = "processing"
        /\ job'.errors_sent = job.errors_sent
        /\ Len(job'.clip_order) = Len(job.merged)
        /\ \A n \in 1 .. Len(job.merged) : job'.clip_order[n].video = job.merged[n]
        /\ \A a, b \in 1 .. Len(job.merged) : a < b => job.merged[a] < job.merged[b]

C16_FallbackOnAnalysisFailure == [][C16_FallbackStep]_vars

\* C17 (as claimed): when merge_video_clips returned no output path, no
\* complete message is sent and the job ends with status 'error'.
C17_NoSegmentsAborts ==
    (job.stage # "none" /\ job.final_video_path = "None") =>
        /\ job.complete = "not_sent"
        /\ job.stage = "ended" => job.status = "error"

\* C18 (as claimed): a job ends with status 'error' only when no transcript
\* could be merged or the clip order holds no cuttable segment.
C18_EscalationPolicy ==
    (job.stage # "none" /\ job.status = "error") =>
        \/ job.merged = <<>>
        \/ \A n \in 1 .. Len(ClipsInfo(job)) : ~ClipsInfo(job)[n].valid

\* C19: with captions requested and a merged video at hand, the subtitle
\* step never ends the job: add_subtitles returns the captioned video or, when
\* the step failed, the merged video it was given; the complete message
\* carries the merged video path and the job ends 'completed'.
C19_CaptionStep ==
    (job.stage = "captions" /\ job' # job) =>
        /\ job'.stage = "complete_sent"
        /\ job'.status = "processing" /\ job'.errors_sent = job.errors_sent
        /\ job'.complete = job.final_video_path
        /\ (job.caption_enable /\ job.final_video_path = "merged")
             => job'.subtitles \in {"subtitled", "merged"}

C19_CaptionEnd ==
    (job.stage = "ended" /\ job.subtitles = "merged") =>
        job.status = "completed" /\ job.complete = "merged"

C19_CaptioningNonFatal == [][C19_CaptionStep]_vars /\ []C19_CaptionEnd

\* C19 witness: captions were requested, the subtitle step failed, and the
\* job ended 'completed' with the merged video reported.
C19_Witness ==
    /\ job.stage = "ended" /\ job.caption_enable
    /\ job.subtitles = "merged" /\ job.complete = "merged"
    /\ job.status = "completed"

\* The time of the first committed save of task_id with a status of kinds; 0
\* when there is none.
FirstSave(task_id, kinds) ==
    LET hits == {n \in 1 .. Len(store.saved) :
                   store.saved[n].task_id = task_id /\ store.saved[n].status \in kinds}
    IN IF hits = {} THEN 0
       ELSE store.saved[CHOOSE n \in hits : \A m \in hits : n <= m].now

\* C20: started_at is the time of the first save of the id with status
\* 'processing', completed_at the time of its first save with a terminal
\* status, and no save_task changes a started_at or completed_at that is set.
C20_SaveStep ==
    store.enabled =>
        \A id \in Ids :
            /\ store.rows[id].started_at # 0
                 => store'.rows[id].started_at = store.rows[id].started_at
            /\ store.rows[id].completed_at # 0
                 => store'.rows[id].completed_at = store.rows[id].completed_at

C20_FirstSaveSets ==
    store.enabled =>
        \A id \in Ids :
            /\ store.rows[id].started_at = FirstSave(id, {"processing"})
            /\ store.rows[id].completed_at = FirstSave(id, Terminal)

C20_TimestampsWriteOnce == [][C20_SaveStep]_vars /\ []C20_FirstSaveSets

\* C20 witness: an id was saved as 'processing', then with a terminal status,
\* then as 'processing' again and with another terminal status, and its row
\* still carries the times of the first two saves.
C20_Witness ==
    /\ store.enabled /\ Len(store.saved) = 4
    /\ \E id \in Ids :
         /\ \A n \in 1 .. 4 : store.saved[n].task_id = id
         /\ store.saved[1].status = "processing" /\ store.saved[2].status = "completed"
         /\ store.saved[3].status = "processing" /\ store.saved[4].status = "error"
         /\ store.rows[id].started_at = store.saved[1].now
         /\ store.rows[id].completed_at = store.saved[2].now
         /\ store.rows[id].updated_at = store.saved[4].now

\* C29 (as claimed): once the executor of a job whose cancellation was
\* accepted has finished, the job's id is not in _cancelled_tasks; and when no
\* job is pending or running the cancellation set is empty.
C29_CancelSetCleaned ==
    /\ \A e \in 1 .. Len(procs) :
         (procs[e].pc = "done" /\ procs[e].task # 0
            /\ \E was \in {"pending", "processing"} :
                 <<procs[e].task, was>> \in cancel_accepted)
           => procs[e].task_id \notin cancelled_tasks
    /\ (LiveProcs = {} /\ task_queue = <<>> /\ add_waiting = <<>>)
           => cancelled_tasks = {}

\* C30: whenever the queue holds an id, every slot is taken.
C30_NoFreeSlotWhileQueued ==
    task_queue # <<>> => processing_tasks = max_concurrent_tasks

\* C30 witness: with a single slot, an id waits in the queue while the running
\* executor has sent its last notification and is about to release the slot.
C30_Witness ==
    /\ max_concurrent_tasks = 1 /\ processing_tasks = 1
    /\ Len(task_queue) = 1
    /\ \E e \in 1 .. Len(procs) : procs[e].pc = "notify_sent"

\* C28 (as claimed): a job dict that is or was 'processing' has started_at,
\* and every job dict in a terminal status has completed_at.
C28_InMemoryTimestamps ==
    \A r \in 1 .. Len(recs) :
        /\ (recs[r].status = "processing" \/ \E e \in 1 .. Len(procs) : procs[e].task = r)
             => recs[r].started_at
        /\ recs[r].status \in Terminal => recs[r].completed_at

\* C26 (as claimed): once the job's id is in the cancellation set, no stage
\* that has not started yet is started: the next stage boundary ends the job
\* as cancelled.  (The loop over the videos in the mapping stage is one stage.)
C26_StartsStage ==
    \/ job.stage = "map" /\ job.i = 1
    \/ job.stage \in {"clip", "merge_transcripts", "analyze", "cut", "merge_clips"}
    \/ job.stage = "captions" /\ job.caption_enable /\ job.final_video_path = "merged"

C26_StageStep ==
    (job.stage # "none" /\ job.cancel_requested /\ job' # job /\ C26_StartsStage)
        => job'.status = "cancelled"

C26_CheckpointAtEveryStage == [][C26_StageStep]_vars

\* C27 (as claimed): a save that passes no payload leaves the stored payload
\* and output directory of an existing record as they were.  (Every save of
\* SpecStore on an existing record is one of the scheduler's saves; the only one
\* that passes a payload passes the same payload again.)
C27_SaveStep ==
    \A id \in Ids :
        (store.rows[id].data # "NULL" /\ store.rows[id].output_dir # "NULL")
            => /\ store'.rows[id].data = store.rows[id].data
               /\ store'.rows[id].output_dir = store.rows[id].output_dir

C27_PayloadImmutable == [][C27_SaveStep]_vars

\* The retention window of a cleanup_old_tasks call as the claim reads it: the
\* days given, or the configured default when none are given.
C21_Window(given, days) == IF given THEN days ELSE AUTO_CLEANUP_DAYS

\* C21 (as claimed): a cleanup_old_tasks call with retention window d that does
\* not fail deletes exactly the terminal records completed before now - d,
\* leaves every other record as it was, and returns the number deleted.
C21_PurgeStep ==
    \A args \in CleanupArgs, elapsed \in {0, MaxElapsed} :
        (store.enabled /\ cleanup_old_tasks(args[1], args[2], elapsed, TRUE))
            => LET now == store.now + elapsed
                   gone == Expired(store.rows, now - C21_Window(args[1], args[2]))
               IN /\ \A id \in Ids :
                        store'.rows[id] = IF id \in gone THEN NoRow ELSE store.rows[id]
                  /\ store'.cleanup.deleted = Cardinality(gone)

C21_RetentionPurge == [][C21_PurgeStep]_vars

\* C23 (as claimed): the write of a progress update leaves the record with the
\* status it has when the write happens, as if the update had read and written
\* at once: it neither restores a status read earlier nor brings back a record
\* deleted in between.
C23_ProgressStep ==
    \A id \in Ids :
        (store.progress[id] # "none" /\ update_task_progress_save(id, TRUE))
            => store'.rows[id].status = store.rows[id].status

C24_StillRunning ==
    (sweeper.failed /\ sweeper.main = "serving") => sweeper.task = "sleeping"

C24_SweeperSurvives ==
    /\ []C24_StillRunning
    /\ (sweeper.failed ~> (sweeper.task = "purging" \/ sweeper.main # "serving"))
    /\ []<>(sweeper.task \in {"none", "purging"} \/ sweeper.main # "serving")

C24_Witness ==
    sweeper.retried /\ sweeper.task = "purging" /\ sweeper.main = "serving"

\* C25 (as claimed): once stop_cleanup_scheduler is called the loop ends,
\* from its sleep or from inside a purge, and stop_cleanup_scheduler returns;
\* after that the loop takes no step and no cleanup_old_tasks call is made.
C25_AfterStop ==
    sweeper.main = "stopped"
        => /\ sweeper.task \in {"none", "finished", "cancelled"}
           /\ store'.cleanup = store.cleanup
           /\ sweeper' = sweeper

C25_SweeperShutdown ==
    /\ [][C25_AfterStop]_vars
    /\ (sweeper.main = "stopping" ~> sweeper.main = "stopped")

C25_Witness ==
    /\ sweeper.main = "stopped" /\ sweeper.task = "finished"
    /\ store.cleanup.called

\* C22 (as claimed): in each of the four modes of the store (enabled with
\* writes that may fail, failing on every write, disabled, absent) the step
\* after a save_task is the one the scheduler takes when nothing failed: the
\* submitted job is enqueued or admitted, the except clause sends its
\* notification, and the completed job's executor ends with the job completed.
\* No step of the scheduler reads the store, so statuses, return values and
\* notifications follow the same rules in every mode.
C22_AfterSave ==
    /\ (add_waiting # <<>> /\ add_waiting' = Tail(add_waiting))
         => \/ \E n \in 1 .. Len(task_queue') : task_queue'[n] = Head(add_waiting)
            \/ /\ Len(procs') = Len(procs) + 1
               /\ procs'[Len(procs')].task_id = Head(add_waiting)
    /\ \A e \in 1 .. Len(procs) :
         /\ (/\ procs[e].pc \in {"timeout_saved", "cancelled_saved", "error_saved"}
             /\ procs'[e].pc # procs[e].pc)
              => Len(procs'[e].sent) = Len(procs[e].sent) + 1
         /\ (procs[e].pc = "completed_saved" /\ procs'[e].pc # procs[e].pc)
              => /\ procs'[e].pc = "done" /\ procs'[e].outcome = "completed"
                 /\ recs' = recs

NameVideos == 2

MaxName == 3

MAX_FILENAME_LENGTH == 255

Chars == {"a", ".", "_", "/", ":"}

Filenames == UNION {[1 .. n -> Chars] : n \in 0 .. MaxName}

\* str.replace(old, new): the occurrences of old, left to right, not overlapping.
RECURSIVE replace(_, _, _)
replace(str, old, new) ==
    IF Len(str) < Len(old) THEN str
    ELSE IF SubSeq(str, 1, Len(old)) = old
         THEN new \o replace(SubSeq(str, Len(old) + 1, Len(str)), old, new)
         ELSE <<str[1]>> \o replace(Tail(str), old, new)

\* re.sub(r'[...]', new, str) for a class of single characters.
re_sub(class, new, str) ==
    [n \in 1 .. Len(str) |-> IF str[n] \in class THEN new ELSE str[n]]

\* str.lstrip(".")
RECURSIVE lstrip(_)
lstrip(str) ==
    IF str # <<>> /\ str[1] = "." THEN lstrip(Tail(str)) ELSE str

\* os.path.splitext on a name without separators: where the extension
\* starts, the last dot that has a character other than a dot before it.
splitext(str) ==
    LET dots == {n \in 1 .. Len(str) : str[n] = "." /\ \E k \in 1 .. n - 1 : str[k] # "."}
    IN IF dots = {} THEN Len(str) + 1
       ELSE CHOOSE n \in dots : \A m \in dots : m <= n

\* sanitize_filename with the default replacement "_".
sanitize_filename(filename) ==
    LET f1 == replace(filename, <<".", ".", "/">>, <<"_">>)
        f2 == replace(f1, <<".", ".", "\\">>, <<"_">>)
        f3 == replace(f2, <<"/">>, <<"_">>)
        f4 == replace(f3, <<"\\">>, <<"_">>)
        f5 == re_sub({"\n"}, "_", f4)
        f6 == re_sub({"<", ">", ":", "\"", "|", "?", "*"}, "_", f5)
        f7 == lstrip(f6)
        ext == SubSeq(f7, splitext(f7), Len(f7))
        name == SubSeq(f7, 1, splitext(f7) - 1)
        keep == MAX_FILENAME_LENGTH - Len(ext)
        f8 == IF Len(f7) > MAX_FILENAME_LENGTH
              THEN SubSeq(name, 1, IF keep >= 0 THEN Min(keep, Len(name))
                                   ELSE Max(Len(name) + keep, 0)) \o ext
              ELSE f7
    IN IF f8 = <<>> THEN <<"u", "n", "n", "a", "m", "e", "d">> ELSE f8

\* The job's submission: the videos' filenames, and whether each path exists.
\* The path of video v is v; found[v] is what video_paths.get returned in
\* stage 2 (0 for None, -1 before the lookup).
NewNames(filenames, exists) ==
    [stage |-> "map",
     filenames |-> filenames,
     exists |-> exists,
     i |-> 1,
     video_paths |-> << >>,               \* processor.video_paths: key -> path
     added |-> {},                        \* videos for which add_video returned
     found |-> [v \in 1 .. NameVideos |-> -1]]

NamesInit ==
    /\ SchedulerInit /\ max_concurrent_tasks = 1
    /\ job \in {NewNames(fs, ex) : fs \in [1 .. NameVideos -> Filenames],
                                   ex \in [1 .. NameVideos -> BOOLEAN]}
    /\ reel = NoReel /\ store = NoStore /\ sweeper = NoSweeper /\ asr = NoAsr

\* VideoProcessor.add_video inside one iteration of _add_videos_to_processor:
\* FileNotFoundError ends the mapping stage.
add_video ==
    /\ job.stage = "map"
    /\ LET v == job.i
           key == sanitize_filename(job.filenames[v])
       IN job' = IF job.exists[v]
                 THEN [job EXCEPT !.video_paths = [k \in DOMAIN @ \cup {key} |->
                                                      IF k = key THEN v ELSE @[k]],
                                  !.added = @ \cup {v},
                                  !.i = IF v = NameVideos THEN 1 ELSE v + 1,
                                  !.stage = IF v = NameVideos THEN "clip" ELSE @]
                 ELSE [job EXCEPT !.i = 1, !.stage = "clip"]
    /\ UNCHANGED <<sched_vars, reel, store, sweeper, asr>>

\* The lookup of process_single_video(filename) inside one iteration of
\* _clip_videos.
process_single_video ==
    /\ job.stage = "clip"
    /\ LET v == job.i
           filename == job.filenames[v]
       IN job' = [job EXCEPT !.found[v] = IF filename \in DOMAIN job.video_paths
                                          THEN job.video_paths[filename] ELSE 0,
                             !.i = v + 1,
                             !.stage = IF v = NameVideos THEN "ended" ELSE @]
    /\ UNCHANGED <<sched_vars, reel, store, sweeper, asr>>

NamesNext ==
    \/ add_video
    \/ process_single_video

SpecNames == NamesInit /\ [][NamesNext]_vars

\* ------------------------------------------------------- polling the ASR service
\* One call of ASRClient.get_result(task_id, max_retries). A poll is one call
\* of _poll_asr_result, which answers with a StatusText or, when its own
\* attempts are used up, raises ASRPollException.
MaxRetries == 4

PollOutcomes == {"RUNNING", "QUEUEING", "SUCCESS", "SUCCESS_WITH_NO_VALID_FRAGMENT",
                 "FAILED", "ASRPollException"}

NewAsr(max_retries, configured) ==
    [pc |-> "called",
     max_retries |-> max_retries,
     configured |-> configured,      \* ASR_APP_KEY is set and self._acs is not None
     poll_count |-> 0,
     last_exception |-> "None",
     seen |-> <<>>,                  \* what each call of _poll_asr_result gave, in order
     sleeps |-> 0,                   \* calls of time.sleep(poll_interval)
     result |-> "none"]              \* "Result", "None", or the exception raised

AsrInit ==
    /\ SchedulerInit /\ max_concurrent_tasks = 1
    /\ job = NoJob /\ reel = NoReel /\ store = NoStore /\ sweeper = NoSweeper
    /\ asr \in {NewAsr(n, c) : n \in 0 .. MaxRetries, c \in BOOLEAN}

AsrReturn(a, value) == [a EXCEPT !.pc = "returned", !.result = value]

AsrRaise(a, exc) == [a EXCEPT !.pc = "raised", !.result = exc]

\* The test of the while loop, and the statements after the loop.
LoopTest(a) ==
    IF a.poll_count < a.max_retries
    THEN [a EXCEPT !.pc = "poll"]
    ELSE AsrRaise(a, IF a.last_exception # "None" THEN a.last_exception ELSE "RuntimeError")

\* A RUNNING branch that gives up one poll late.
OnRunning_late(a) ==
    LET a1 == [a EXCEPT !.poll_count = @ + 1]
    IN IF a1.poll_count > a1.max_retries
       THEN AsrRaise(a1, "TimeoutError")
       ELSE [a1 EXCEPT !.pc = "sleep"]

\* The branch for status RUNNING or QUEUEING.
OnRunning(a) ==
    LET a1 == [a EXCEPT !.poll_count = @ + 1]
    IN IF a1.poll_count >= a1.max_retries
       THEN AsrRaise(a1, "TimeoutError")
       ELSE [a1 EXCEPT !.pc = "sleep"]

\* except ASRPollException
OnPollException(a) ==
    LET a1 == [a EXCEPT !.last_exception = "ASRPollException", !.poll_count = @ + 1]
    IN IF a1.poll_count < a1.max_retries
       THEN [a1 EXCEPT !.pc = "sleep"]
       ELSE LoopTest(a1)              \* break

\* The configuration checks and the first test of the loop.
get_result_begin ==
    /\ asr.pc = "called"
    /\ asr' = IF asr.configured THEN LoopTest(asr) ELSE AsrRaise(asr, "RuntimeError")
    /\ UNCHANGED <<sched_vars, job, reel, store, sweeper>>

\* One call of _poll_asr_result and the statements up to the next sleep,
\* return or raise.
poll_asr_result ==
    /\ asr.pc = "poll"
    /\ \E out \in PollOutcomes :
          LET a == [asr EXCEPT !.seen = Append(@, out)]
          IN asr' = CASE out \in {"RUNNING", "QUEUEING"} -> OnRunning(a)
                      [] out = "SUCCESS" -> AsrReturn(a, "Result")
                      [] out = "ASRPollException" -> OnPollException(a)
                      [] OTHER -> AsrReturn(a, "None")
    /\ UNCHANGED <<sched_vars, job, reel, store, sweeper>>

\* time.sleep(poll_interval) returns, and the loop is tested again.
sleep_returns ==
    /\ asr.pc = "sleep"
    /\ asr' = LoopTest([asr EXCEPT !.sleeps = @ + 1])
    /\ UNCHANGED <<sched_vars, job, reel, store, sweeper>>

AsrNext ==
    \/ get_result_begin
    \/ poll_asr_result
    \/ sleep_returns

SpecAsr == AsrInit /\ [][AsrNext]_vars

\* The call's thread keeps running: no step of get_result waits for another.
SpecAsrFair == SpecAsr /\ WF_vars(AsrNext)

\* C31: processing_tasks is the number of executors that process_next_task
\* has launched and that have not run their finally block (or the tail of the
\* unknown-id path); so it lies between 0 and max_concurrent_tasks and is 0
\* when no executor is live.
C31_CounterAccounting ==
    /\ processing_tasks = Cardinality(LiveProcs)
    /\ processing_tasks \in 0 .. max_concurrent_tasks
    /\ LiveProcs = {} => processing_tasks = 0

\* C31 witness: two executors were launched, both have run their finally
\* block, and the counter is back at 0.
C31_Witness ==
    /\ Len(procs) = 2 /\ LiveProcs = {}
    /\ processing_tasks = 0
    /\ \E e \in 1 .. Len(procs) : procs[e].outcome = "timeout"

\* C32 (as claimed): an executor whose job was cancelled while pending stops
\* at the first cancellation check of the core: it gets no further than the
\* except clause for CancelledError, sends nothing but the cancelled
\* notification, and registers no VideoProcessor.
C32_CancelledPendingRunsNothing ==
    \A e \in 1 .. Len(procs) :
        (procs[e].task # 0 /\ <<procs[e].task, "pending">> \in cancel_accepted)
            => /\ procs[e].pc \in {"core", "cancelled_saved", "notify_sent", "done"}
               /\ procs[e].outcome \in {"none", "cancelled"}
               /\ \A n \in 1 .. Len(procs[e].sent) : procs[e].sent[n] = "cancelled"
               /\ (Live(e) /\ \A o \in LiveProcs : procs[o].task_id = procs[e].task_id => o = e)
                    => procs[e].task_id \notin video_processors

\* C33 (as claimed): a failing notification does not change a job's outcome;
\* in particular a job that was not cancelled and whose final video was
\* produced ends 'completed', whether or not websocket.send raised.
C33_ProducedVideoCompletes ==
    (job.stage = "ended" /\ job.final_video_path = "merged" /\ ~job.cancel_requested)
        => job.status = "completed"

\* C35 (as claimed): every video for which add_video succeeded in stage 1 is
\* found under its submitted filename by the lookup of process_single_video
\* in stage 2, also when sanitize_filename rewrote the filename.
C35_MappedVideoFound ==
    job.stage \in {"clip", "ended"} =>
        \A v \in job.added : job.found[v] \in {-1, v}

AsrEnded == asr.pc \in {"returned", "raised"}

AllRunning(a) == \A k \in 1 .. Len(a.seen) : a.seen[k] \in {"RUNNING", "QUEUEING"}

C36_Bounded ==
    /\ Len(asr.seen) <= asr.max_retries
    /\ asr.sleeps <= Max(Len(asr.seen) - 1, 0) \/ (asr.pc = "poll" /\ asr.sleeps = Len(asr.seen))
    /\ AsrEnded /\ asr.seen # <<>> =>
          LET last == asr.seen[Len(asr.seen)]
          IN /\ asr.sleeps = Len(asr.seen) - 1
             /\ \A k \in 1 .. Len(asr.seen) - 1 :
                    asr.seen[k] \in {"RUNNING", "QUEUEING", "ASRPollException"}
             /\ last = "SUCCESS" => asr.result = "Result"
             /\ last \in {"SUCCESS_WITH_NO_VALID_FRAGMENT", "FAILED"} => asr.result = "None"
             /\ last \in {"RUNNING", "QUEUEING"} =>
                    /\ asr.result = "TimeoutError"
                    /\ Len(asr.seen) = asr.max_retries
    /\ asr.pc \in {"poll", "sleep"} => AllRunning(asr) \/ asr.last_exception # "None"
    /\ (AsrEnded /\ AllRunning(asr) /\ Len(asr.seen) = asr.max_retries /\ asr.max_retries >= 1)
          => asr.sleeps = asr.max_retries - 1 /\ asr.result = "TimeoutError"

\* C36: get_result(task_id, max_retries = n) ends after at most n polls: it
\* returns at the first poll with a final status (Result for SUCCESS, None
\* otherwise), raises TimeoutError when the n-th poll still reports RUNNING
\* or QUEUEING, and sleeps only between two polls, n - 1 times when every
\* poll reports RUNNING.
C36_PollingBounded == []C36_Bounded /\ <>AsrEnded

C36_Witness ==
    /\ asr.pc = "raised" /\ asr.result = "TimeoutError"
    /\ asr.max_retries = MaxRetries /\ Len(asr.seen) = MaxRetries
    /\ \A k \in 1 .. MaxRetries : asr.seen[k] = "RUNNING"
    /\ asr.sleeps = MaxRetries - 1

\* The overlap of two lines of one video is more than 80% of the shorter one.
OverlapsMoreThan80(a, b) ==
    LET overlap == Min(time_to_seconds(a.end_time), time_to_seconds(b.end_time))
                     - Max(time_to_seconds(a.start_time), time_to_seconds(b.start_time))
        shorter == Min(time_to_seconds(a.end_time) - time_to_seconds(a.start_time),
                       time_to_seconds(b.end_time) - time_to_seconds(b.start_time))
    IN a.video = b.video /\ overlap > 0 /\ 10 * overlap > 8 * shorter

RECURSIVE KeptAsClaimed(_, _, _)
KeptAsClaimed(text, n, kept) ==
    IF n > Len(text) THEN kept
    ELSE LET line == text[n]
             drop == \/ time_to_seconds(line.start_time) >= time_to_seconds(line.end_time)
                     \/ \E k \in 1 .. Len(kept) : OverlapsMoreThan80(line, kept[k])
         IN KeptAsClaimed(text, n + 1, IF drop THEN kept ELSE Append(kept, line))

\* C37 (as claimed): _parse_analysis_to_clip_order returns the lines of the
\* text in order, without those with start >= end and without those that
\* overlap an earlier kept line of the same video by more than 80% of the
\* shorter of the two durations; a line overlapping by 80% or less is kept.
C37_KeepsUnlessOver80 ==
    reel.stage # "analysis" => reel.clip_order = KeptAsClaimed(reel.listed, 1, <<>>)

\* C38 (as claimed): every clip list _parse_analysis_to_clip_order returns
\* passes the same-video overlap check of validate_clip_order, so that the
\* segments kept by the duplicate suppression never make process_clips raise.
C38_ParsedListPassesOverlapCheck ==
    reel.stage # "analysis" => ~same_video_overlap(reel.clip_order)

\* The merge as claimed: an entry joins the current clip when it is of the
\* same video and starts at most ADJACENT_GAP_SECONDS after the current end.
RECURSIVE MergedAsClaimed(_, _, _, _)
MergedAsClaimed(clips_info, i, current, merged) ==
    IF i > Len(clips_info) THEN Append(merged, pad_end(current))
    ELSE LET next_clip == clips_info[i]
             gap == time_to_seconds(next_clip.start_time) - time_to_seconds(current.end_time)
         IN IF current.video = next_clip.video /\ gap <= ADJACENT_GAP_SECONDS * 1000
            THEN MergedAsClaimed(clips_info, i + 1,
                                 [current EXCEPT !.end_time = next_clip.end_time,
                                                 !.lines = Append(@, i)],
                                 merged)
            ELSE MergedAsClaimed(clips_info, i + 1,
                                 [video |-> next_clip.video,
                                  start_time |-> next_clip.start_time,
                                  end_time |-> next_clip.end_time, lines |-> <<i>>],
                                 Append(merged, pad_end(current)))

\* C39 (as claimed): merge_adjacent_clips merges exactly the consecutive
\* entries of the same video whose gap, next start minus current end, is at
\* most ADJACENT_GAP_SECONDS; a merged clip has the first start and the last
\* end plus END_PADDING_SECONDS, and the order of the clips is unchanged:
\* every file process_clips cuts is a clip of that merge, under its number.
C39_MergesExactlyAdjacent ==
    reel.clip_order # <<>> =>
        LET claimed == MergedAsClaimed(reel.clip_order, 2,
                           [video |-> reel.clip_order[1].video,
                            start_time |-> reel.clip_order[1].start_time,
                            end_time |-> reel.clip_order[1].end_time, lines |-> <<1>>],
                           <<>>)
        IN \A f \in reel.files :
              f.n \in 1 .. Len(claimed) /\ f = CutFile(claimed, f.n)

\* C40 (as claimed): merge_adjacent_clips preserves validity: when every
\* clip of its input has start < end, also with two consecutive clips of a
\* video in reverse time order, every clip of its output has start < end.
C40_MergeKeepsStartBeforeEnd ==
    (/\ reel.stage \in {"merge_clips", "final"}
     /\ \A n \in 1 .. Len(reel.clip_order) :
           time_to_seconds(reel.clip_order[n].start_time)
             < time_to_seconds(reel.clip_order[n].end_time))
        => LET merged_clips == merge_adjacent_clips(reel.clip_order)
           IN \A i \in 1 .. Len(merged_clips) :
                 time_to_seconds(merged_clips[i].start_time)
                   < time_to_seconds(merged_clips[i].end_time)

\* No save_task call is in flight and no executor is running.
AtRest == ledger.pending = <<>> /\ LiveProcs = {}

\* C34 (as claimed): with the store enabled and no write failing, whenever
\* no save_task call is in flight and no executor is running, the status
\* stored for every job id equals the status of that id's job in memory, in
\* every interleaving of add_task, cancel_task and the executors.
C34_StoreAgreesAtRest ==
    AtRest => \A id \in Ids : ledger.rows[id] = StatusOf(id)

====
